---- MODULE Spec2Model ----
(***************************************************************************)
(* Model of the product-analysis core of the backend:                      *)
(*   - AIProductAnalyzer._parse_crew_result  (the structured extractor),   *)
(*   - AIProductAnalyzer.analyze_product     (grounding + 4-stage chain),  *)
(*   - GoogleSearchService.search            (the search transport),       *)
(*   - the /products/analyze route           (the facade).                 *)
(*                                                                         *)
(* Text is modelled as a sequence of Unicode code points, so that          *)
(* splitting, stripping, case mapping, substring tests and the regular     *)
(* expressions of the extractor are computed, not assumed.                 *)
(***************************************************************************)
EXTENDS Integers, Sequences, FiniteSets, TLC

VARIABLES
    \* ---- extractor (_parse_crew_result) ----
    raw,        \* the raw text handed to the extractor
    userIn,     \* original_user_input: None or Some(text)
    out,        \* the value the last extractor call returned
    xpc,        \* "idle" (inputs chosen) / "done" (the call has returned)
    \* ---- one request to POST /products/analyze ----
    settings,               \* the Settings the process was started with
    svc,                    \* _google_search_service, the module-level singleton
    user_description,       \* the request's user_description: None or Some(text)
    apc,                    \* where the request handler is
    file_state,             \* the uploaded file: "none", "created", "saved", "removed"
    google_search_context,  \* snippets embedded in the vision prompt, <<>> for ""
    market_price_context,   \* statistics embedded in the pricing prompt, or empty
    stage,                  \* per task: "pending", "running", "done", "failed"
    stage_output,           \* per task: the text it produced, if any
    prompt,                 \* per task: the predecessor texts its prompt embedded
    exc,                    \* the exception travelling up to the route, or NoExc
    response,               \* what the route answered, or NoResponse
    \* ---- history ----
    started,                \* the tasks in the order they were started
    produced,               \* per task: how many times its output was written
    parse_calls,            \* calls of _parse_crew_result made by the request
    requests,               \* remote search requests issued
    searches,               \* the calls of GoogleSearchService.search, in order
    \* ---- one call of search_product_prices ----
    presults,               \* the results its search returned
    price_data,             \* what the call returned (or that it raised)
    ppc,                    \* "idle" / "done"
    \* ---- one call of publish_to_multiple_marketplaces ----
    mreqs,                  \* the requests, in the order submitted
    mcalls,                 \* per request: its publish call and how it ended
    morder,                 \* the indices of the calls in the order they finished
    mresponses,             \* the list returned, once it is returned
    mpc,                    \* "idle" / "gathering" / "done"
    \* ---- two concurrent requests to analyze_product ----
    csettings,              \* the Settings of the process
    csvc,                   \* _google_search_service, shared by the requests
    cdesc,                  \* per request: its user_description
    cpc,                    \* per request: where its coroutine is
    cgsc,                   \* per request: its local google_search_context
    cmkt,                   \* per request: its local market_price_context
    cprompt,                \* per request: what its crew was given
    cresp,                  \* per request: what it answered
    cfeed,                  \* per request: the backend responses to its own calls
    cmixed,                 \* a request took a step while the other was under way
    cloop,                  \* the request whose coroutine the event loop is running, 0 if none
    \* ---- one request to /enrichment/predict-category ----
    qreq,                   \* the CategoryPredictionRequest
    qprompt,                \* the user message sent to the backend
    qcompletion,            \* how the backend call ended
    qresponse,              \* what the route answered
    qpc,                    \* "idle" / "awaiting" / "done"
    \* ---- one request to /marketplaces/publish ----
    lprior,                 \* the listing's and the product's status before the request
    llisting,               \* the row of the listing in product_listings
    lproduct,               \* the status of the product in products
    lcolumns,               \* the columns of the product the request is built from
    lsnapshot,              \* the listing and the product as the route read them
    lrequest,               \* the MarketplacePublishRequest, once built
    lresult,                \* what publish_to_marketplace returned
    lraised,                \* where an exception was raised, "none" if nowhere
    lresponse,              \* what the route answered
    lsteps,                 \* the writes and calls made, in order
    lothers,                \* the writes other requests made meanwhile, in order
    lpc,                    \* where the route is
    \* ---- one call of enrich_for_shopee or enrich_for_tiktok ----
    ename,                  \* product.name
    econtent,               \* the content of the backend's completion
    epayload,               \* the payload returned, or the exception raised
    epc                     \* "idle" / "done"

xvars == <<raw, userIn, out, xpc>>

avars == <<settings, svc, user_description, apc, file_state, google_search_context,
           market_price_context, stage, stage_output, prompt, exc, response,
           started, produced, parse_calls, requests, searches>>

svars == <<presults, price_data, ppc>>

mvars == <<mreqs, mcalls, morder, mresponses, mpc>>

cvars == <<csettings, csvc, cdesc, cpc, cgsc, cmkt, cprompt, cresp, cfeed, cmixed, cloop>>

qvars == <<qreq, qprompt, qcompletion, qresponse, qpc>>

lvars == <<lprior, llisting, lproduct, lcolumns, lsnapshot, lrequest, lresult, lraised,
           lresponse, lsteps, lothers, lpc>>

evars == <<ename, econtent, epayload, epc>>

vars == <<xvars, avars, svars, mvars, cvars, qvars, lvars, evars>>

\* what each component leaves alone
notExtract == <<avars, svars, mvars, cvars, qvars, lvars, evars>>

notAnalyze == <<xvars, svars, mvars, cvars, qvars, lvars, evars>>

notPrices == <<xvars, avars, mvars, cvars, qvars, lvars, evars>>

notPublish == <<xvars, avars, svars, cvars, qvars, lvars, evars>>

notConcurrent == <<xvars, avars, svars, mvars, qvars, lvars, evars>>

notPredict == <<xvars, avars, svars, mvars, cvars, lvars, evars>>

notListing == <<xvars, avars, svars, mvars, cvars, qvars, evars>>

notEnrich == <<xvars, avars, svars, mvars, cvars, qvars, lvars>>

(***************************************************************************)
(* Characters and Python's str helpers                                     *)
(***************************************************************************)

\* A text is a sequence of characters and a character is its Unicode code
\* point, as in a Python str.  T turns a sequence of one-character strings
\* into a text and Ch one such string into a character; a character outside
\* ASCII is written by its code point.

\* the printable ASCII characters, U+0020 to U+007E, U+0060 aside
AsciiLow ==
    <<" ", "!", "\"", "#", "$", "%", "&", "'", "(", ")", "*", "+", ",", "-", ".", "/",
      "0", "1", "2", "3", "4", "5", "6", "7", "8", "9", ":", ";", "<", "=", ">", "?",
      "@", "A", "B", "C", "D", "E", "F", "G", "H", "I", "J", "K", "L", "M", "N", "O",
      "P", "Q", "R", "S", "T", "U", "V", "W", "X", "Y", "Z", "[", "\\", "]", "^", "_">>

AsciiHigh ==
    <<"a", "b", "c", "d", "e", "f", "g", "h", "i", "j", "k", "l", "m", "n", "o", "p",
      "q", "r", "s", "t", "u", "v", "w", "x", "y", "z", "{", "|", "}", "~">>

CharCode ==
    [c \in {AsciiLow[i] : i \in 1..64} \cup {AsciiHigh[i] : i \in 1..30}
            \cup {"\t", "\n", "\f", "\r"} |->
        CASE c = "\t" -> 9
          [] c = "\n" -> 10
          [] c = "\f" -> 12
          [] c = "\r" -> 13
          [] \E i \in 1..64 : AsciiLow[i] = c -> 31 + CHOOSE i \in 1..64 : AsciiLow[i] = c
          [] OTHER -> 96 + CHOOSE i \in 1..30 : AsciiHigh[i] = c]

Ch(c) == CharCode[c]

Chs(S) == {CharCode[c] : c \in S}

T(s) == [i \in 1..Len(s) |-> CharCode[s[i]]]

\* is c in one of the ranges <<first, last>> of rs
InRanges(c, rs) == \E i \in 1..Len(rs) : rs[i][1] <= c /\ c <= rs[i][2]

\* the characters str.strip() removes and the regex \s matches on a str:
\* those for which str.isspace() holds
Whitespace ==
    {9, 10, 11, 12, 13, 28, 29, 30, 31, 32, 133, 160, 5760, 8192, 8193, 8194, 8195,
     8196, 8197, 8198, 8199, 8200, 8201, 8202, 8232, 8233, 8239, 8287, 12288}

\* the decimal digits (category Nd, Unicode 14): the regex \d on a str matches
\* them and int() reads them.  Each script has its ten digits in a row; these
\* are the code points of the digits zero
DigitZeros ==
    {48, 1632, 1776, 1984, 2406, 2534, 2662, 2790, 2918, 3046, 3174, 3302, 3430, 3558,
     3664, 3792, 3872, 4160, 4240, 6112, 6160, 6470, 6608, 6784, 6800, 6992, 7088, 7232,
     7248, 42528, 43216, 43264, 43472, 43504, 43600, 44016, 65296, 66720, 68912, 69734,
     69872, 69942, 70096, 70384, 70736, 70864, 71248, 71360, 71472, 71904, 72016, 72784,
     73040, 73120, 92768, 92864, 93008, 120782, 120792, 120802, 120812, 120822, 123200,
     123632, 125264, 130032}

Digits == UNION {z..(z + 9) : z \in DigitZeros}

\* the value int() gives the digit c
DigitValue(c) == c - (CHOOSE z \in DigitZeros : z <= c /\ c <= z + 9)

\* the characters the regex \w matches on a str (letters, digits and numbers
\* of every script, and the underscore), as ranges of code points
WordRanges == <<
    <<48,57>>, <<65,90>>, <<95,95>>, <<97,122>>, <<170,170>>, <<178,179>>, <<181,181>>,
    <<185,186>>, <<188,190>>, <<192,214>>, <<216,246>>, <<248,705>>, <<710,721>>,
    <<736,740>>, <<748,748>>, <<750,750>>, <<880,884>>, <<886,887>>, <<890,893>>,
    <<895,895>>, <<902,902>>, <<904,906>>, <<908,908>>, <<910,929>>, <<931,1013>>,
    <<1015,1153>>, <<1162,1327>>, <<1329,1366>>, <<1369,1369>>, <<1376,1416>>,
    <<1488,1514>>, <<1519,1522>>, <<1568,1610>>, <<1632,1641>>, <<1646,1647>>,
    <<1649,1747>>, <<1749,1749>>, <<1765,1766>>, <<1774,1788>>, <<1791,1791>>,
    <<1808,1808>>, <<1810,1839>>, <<1869,1957>>, <<1969,1969>>, <<1984,2026>>,
    <<2036,2037>>, <<2042,2042>>, <<2048,2069>>, <<2074,2074>>, <<2084,2084>>,
    <<2088,2088>>, <<2112,2136>>, <<2144,2154>>, <<2160,2183>>, <<2185,2190>>,
    <<2208,2249>>, <<2308,2361>>, <<2365,2365>>, <<2384,2384>>, <<2392,2401>>,
    <<2406,2415>>, <<2417,2432>>, <<2437,2444>>, <<2447,2448>>, <<2451,2472>>,
    <<2474,2480>>, <<2482,2482>>, <<2486,2489>>, <<2493,2493>>, <<2510,2510>>,
    <<2524,2525>>, <<2527,2529>>, <<2534,2545>>, <<2548,2553>>, <<2556,2556>>,
    <<2565,2570>>, <<2575,2576>>, <<2579,2600>>, <<2602,2608>>, <<2610,2611>>,
    <<2613,2614>>, <<2616,2617>>, <<2649,2652>>, <<2654,2654>>, <<2662,2671>>,
    <<2674,2676>>, <<2693,2701>>, <<2703,2705>>, <<2707,2728>>, <<2730,2736>>,
    <<2738,2739>>, <<2741,2745>>, <<2749,2749>>, <<2768,2768>>, <<2784,2785>>,
    <<2790,2799>>, <<2809,2809>>, <<2821,2828>>, <<2831,2832>>, <<2835,2856>>,
    <<2858,2864>>, <<2866,2867>>, <<2869,2873>>, <<2877,2877>>, <<2908,2909>>,
    <<2911,2913>>, <<2918,2927>>, <<2929,2935>>, <<2947,2947>>, <<2949,2954>>,
    <<2958,2960>>, <<2962,2965>>, <<2969,2970>>, <<2972,2972>>, <<2974,2975>>,
    <<2979,2980>>, <<2984,2986>>, <<2990,3001>>, <<3024,3024>>, <<3046,3058>>,
    <<3077,3084>>, <<3086,3088>>, <<3090,3112>>, <<3114,3129>>, <<3133,3133>>,
    <<3160,3162>>, <<3165,3165>>, <<3168,3169>>, <<3174,3183>>, <<3192,3198>>,
    <<3200,3200>>, <<3205,3212>>, <<3214,3216>>, <<3218,3240>>, <<3242,3251>>,
    <<3253,3257>>, <<3261,3261>>, <<3293,3294>>, <<3296,3297>>, <<3302,3311>>,
    <<3313,3314>>, <<3332,3340>>, <<3342,3344>>, <<3346,3386>>, <<3389,3389>>,
    <<3406,3406>>, <<3412,3414>>, <<3416,3425>>, <<3430,3448>>, <<3450,3455>>,
    <<3461,3478>>, <<3482,3505>>, <<3507,3515>>, <<3517,3517>>, <<3520,3526>>,
    <<3558,3567>>, <<3585,3632>>, <<3634,3635>>, <<3648,3654>>, <<3664,3673>>,
    <<3713,3714>>, <<3716,3716>>, <<3718,3722>>, <<3724,3747>>, <<3749,3749>>,
    <<3751,3760>>, <<3762,3763>>, <<3773,3773>>, <<3776,3780>>, <<3782,3782>>,
    <<3792,3801>>, <<3804,3807>>, <<3840,3840>>, <<3872,3891>>, <<3904,3911>>,
    <<3913,3948>>, <<3976,3980>>, <<4096,4138>>, <<4159,4169>>, <<4176,4181>>,
    <<4186,4189>>, <<4193,4193>>, <<4197,4198>>, <<4206,4208>>, <<4213,4225>>,
    <<4238,4238>>, <<4240,4249>>, <<4256,4293>>, <<4295,4295>>, <<4301,4301>>,
    <<4304,4346>>, <<4348,4680>>, <<4682,4685>>, <<4688,4694>>, <<4696,4696>>,
    <<4698,4701>>, <<4704,4744>>, <<4746,4749>>, <<4752,4784>>, <<4786,4789>>,
    <<4792,4798>>, <<4800,4800>>, <<4802,4805>>, <<4808,4822>>, <<4824,4880>>,
    <<4882,4885>>, <<4888,4954>>, <<4969,4988>>, <<4992,5007>>, <<5024,5109>>,
    <<5112,5117>>, <<5121,5740>>, <<5743,5759>>, <<5761,5786>>, <<5792,5866>>,
    <<5870,5880>>, <<5888,5905>>, <<5919,5937>>, <<5952,5969>>, <<5984,5996>>,
    <<5998,6000>>, <<6016,6067>>, <<6103,6103>>, <<6108,6108>>, <<6112,6121>>,
    <<6128,6137>>, <<6160,6169>>, <<6176,6264>>, <<6272,6276>>, <<6279,6312>>,
    <<6314,6314>>, <<6320,6389>>, <<6400,6430>>, <<6470,6509>>, <<6512,6516>>,
    <<6528,6571>>, <<6576,6601>>, <<6608,6618>>, <<6656,6678>>, <<6688,6740>>,
    <<6784,6793>>, <<6800,6809>>, <<6823,6823>>, <<6917,6963>>, <<6981,6988>>,
    <<6992,7001>>, <<7043,7072>>, <<7086,7141>>, <<7168,7203>>, <<7232,7241>>,
    <<7245,7293>>, <<7296,7304>>, <<7312,7354>>, <<7357,7359>>, <<7401,7404>>,
    <<7406,7411>>, <<7413,7414>>, <<7418,7418>>, <<7424,7615>>, <<7680,7957>>,
    <<7960,7965>>, <<7968,8005>>, <<8008,8013>>, <<8016,8023>>, <<8025,8025>>,
    <<8027,8027>>, <<8029,8029>>, <<8031,8061>>, <<8064,8116>>, <<8118,8124>>,
    <<8126,8126>>, <<8130,8132>>, <<8134,8140>>, <<8144,8147>>, <<8150,8155>>,
    <<8160,8172>>, <<8178,8180>>, <<8182,8188>>, <<8304,8305>>, <<8308,8313>>,
    <<8319,8329>>, <<8336,8348>>, <<8450,8450>>, <<8455,8455>>, <<8458,8467>>,
    <<8469,8469>>, <<8473,8477>>, <<8484,8484>>, <<8486,8486>>, <<8488,8488>>,
    <<8490,8493>>, <<8495,8505>>, <<8508,8511>>, <<8517,8521>>, <<8526,8526>>,
    <<8528,8585>>, <<9312,9371>>, <<9450,9471>>, <<10102,10131>>, <<11264,11492>>,
    <<11499,11502>>, <<11506,11507>>, <<11517,11517>>, <<11520,11557>>, <<11559,11559>>,
    <<11565,11565>>, <<11568,11623>>, <<11631,11631>>, <<11648,11670>>, <<11680,11686>>,
    <<11688,11694>>, <<11696,11702>>, <<11704,11710>>, <<11712,11718>>, <<11720,11726>>,
    <<11728,11734>>, <<11736,11742>>, <<11823,11823>>, <<12293,12295>>, <<12321,12329>>,
    <<12337,12341>>, <<12344,12348>>, <<12353,12438>>, <<12445,12447>>, <<12449,12538>>,
    <<12540,12543>>, <<12549,12591>>, <<12593,12686>>, <<12690,12693>>, <<12704,12735>>,
    <<12784,12799>>, <<12832,12841>>, <<12872,12879>>, <<12881,12895>>, <<12928,12937>>,
    <<12977,12991>>, <<13312,19903>>, <<19968,42124>>, <<42192,42237>>, <<42240,42508>>,
    <<42512,42539>>, <<42560,42606>>, <<42623,42653>>, <<42656,42735>>, <<42775,42783>>,
    <<42786,42888>>, <<42891,42954>>, <<42960,42961>>, <<42963,42963>>, <<42965,42969>>,
    <<42994,43009>>, <<43011,43013>>, <<43015,43018>>, <<43020,43042>>, <<43056,43061>>,
    <<43072,43123>>, <<43138,43187>>, <<43216,43225>>, <<43250,43255>>, <<43259,43259>>,
    <<43261,43262>>, <<43264,43301>>, <<43312,43334>>, <<43360,43388>>, <<43396,43442>>,
    <<43471,43481>>, <<43488,43492>>, <<43494,43518>>, <<43520,43560>>, <<43584,43586>>,
    <<43588,43595>>, <<43600,43609>>, <<43616,43638>>, <<43642,43642>>, <<43646,43695>>,
    <<43697,43697>>, <<43701,43702>>, <<43705,43709>>, <<43712,43712>>, <<43714,43714>>,
    <<43739,43741>>, <<43744,43754>>, <<43762,43764>>, <<43777,43782>>, <<43785,43790>>,
    <<43793,43798>>, <<43808,43814>>, <<43816,43822>>, <<43824,43866>>, <<43868,43881>>,
    <<43888,44002>>, <<44016,44025>>, <<44032,55203>>, <<55216,55238>>, <<55243,55291>>,
    <<63744,64109>>, <<64112,64217>>, <<64256,64262>>, <<64275,64279>>, <<64285,64285>>,
    <<64287,64296>>, <<64298,64310>>, <<64312,64316>>, <<64318,64318>>, <<64320,64321>>,
    <<64323,64324>>, <<64326,64433>>, <<64467,64829>>, <<64848,64911>>, <<64914,64967>>,
    <<65008,65019>>, <<65136,65140>>, <<65142,65276>>, <<65296,65305>>, <<65313,65338>>,
    <<65345,65370>>, <<65382,65470>>, <<65474,65479>>, <<65482,65487>>, <<65490,65495>>,
    <<65498,65500>>, <<65536,65547>>, <<65549,65574>>, <<65576,65594>>, <<65596,65597>>,
    <<65599,65613>>, <<65616,65629>>, <<65664,65786>>, <<65799,65843>>, <<65856,65912>>,
    <<65930,65931>>, <<66176,66204>>, <<66208,66256>>, <<66273,66299>>, <<66304,66339>>,
    <<66349,66378>>, <<66384,66421>>, <<66432,66461>>, <<66464,66499>>, <<66504,66511>>,
    <<66513,66517>>, <<66560,66717>>, <<66720,66729>>, <<66736,66771>>, <<66776,66811>>,
    <<66816,66855>>, <<66864,66915>>, <<66928,66938>>, <<66940,66954>>, <<66956,66962>>,
    <<66964,66965>>, <<66967,66977>>, <<66979,66993>>, <<66995,67001>>, <<67003,67004>>,
    <<67072,67382>>, <<67392,67413>>, <<67424,67431>>, <<67456,67461>>, <<67463,67504>>,
    <<67506,67514>>, <<67584,67589>>, <<67592,67592>>, <<67594,67637>>, <<67639,67640>>,
    <<67644,67644>>, <<67647,67669>>, <<67672,67702>>, <<67705,67742>>, <<67751,67759>>,
    <<67808,67826>>, <<67828,67829>>, <<67835,67867>>, <<67872,67897>>, <<67968,68023>>,
    <<68028,68047>>, <<68050,68096>>, <<68112,68115>>, <<68117,68119>>, <<68121,68149>>,
    <<68160,68168>>, <<68192,68222>>, <<68224,68255>>, <<68288,68295>>, <<68297,68324>>,
    <<68331,68335>>, <<68352,68405>>, <<68416,68437>>, <<68440,68466>>, <<68472,68497>>,
    <<68521,68527>>, <<68608,68680>>, <<68736,68786>>, <<68800,68850>>, <<68858,68899>>,
    <<68912,68921>>, <<69216,69246>>, <<69248,69289>>, <<69296,69297>>, <<69376,69415>>,
    <<69424,69445>>, <<69457,69460>>, <<69488,69505>>, <<69552,69579>>, <<69600,69622>>,
    <<69635,69687>>, <<69714,69743>>, <<69745,69746>>, <<69749,69749>>, <<69763,69807>>,
    <<69840,69864>>, <<69872,69881>>, <<69891,69926>>, <<69942,69951>>, <<69956,69956>>,
    <<69959,69959>>, <<69968,70002>>, <<70006,70006>>, <<70019,70066>>, <<70081,70084>>,
    <<70096,70106>>, <<70108,70108>>, <<70113,70132>>, <<70144,70161>>, <<70163,70187>>,
    <<70272,70278>>, <<70280,70280>>, <<70282,70285>>, <<70287,70301>>, <<70303,70312>>,
    <<70320,70366>>, <<70384,70393>>, <<70405,70412>>, <<70415,70416>>, <<70419,70440>>,
    <<70442,70448>>, <<70450,70451>>, <<70453,70457>>, <<70461,70461>>, <<70480,70480>>,
    <<70493,70497>>, <<70656,70708>>, <<70727,70730>>, <<70736,70745>>, <<70751,70753>>,
    <<70784,70831>>, <<70852,70853>>, <<70855,70855>>, <<70864,70873>>, <<71040,71086>>,
    <<71128,71131>>, <<71168,71215>>, <<71236,71236>>, <<71248,71257>>, <<71296,71338>>,
    <<71352,71352>>, <<71360,71369>>, <<71424,71450>>, <<71472,71483>>, <<71488,71494>>,
    <<71680,71723>>, <<71840,71922>>, <<71935,71942>>, <<71945,71945>>, <<71948,71955>>,
    <<71957,71958>>, <<71960,71983>>, <<71999,71999>>, <<72001,72001>>, <<72016,72025>>,
    <<72096,72103>>, <<72106,72144>>, <<72161,72161>>, <<72163,72163>>, <<72192,72192>>,
    <<72203,72242>>, <<72250,72250>>, <<72272,72272>>, <<72284,72329>>, <<72349,72349>>,
    <<72368,72440>>, <<72704,72712>>, <<72714,72750>>, <<72768,72768>>, <<72784,72812>>,
    <<72818,72847>>, <<72960,72966>>, <<72968,72969>>, <<72971,73008>>, <<73030,73030>>,
    <<73040,73049>>, <<73056,73061>>, <<73063,73064>>, <<73066,73097>>, <<73112,73112>>,
    <<73120,73129>>, <<73440,73458>>, <<73648,73648>>, <<73664,73684>>, <<73728,74649>>,
    <<74752,74862>>, <<74880,75075>>, <<77712,77808>>, <<77824,78894>>, <<82944,83526>>,
    <<92160,92728>>, <<92736,92766>>, <<92768,92777>>, <<92784,92862>>, <<92864,92873>>,
    <<92880,92909>>, <<92928,92975>>, <<92992,92995>>, <<93008,93017>>, <<93019,93025>>,
    <<93027,93047>>, <<93053,93071>>, <<93760,93846>>, <<93952,94026>>, <<94032,94032>>,
    <<94099,94111>>, <<94176,94177>>, <<94179,94179>>, <<94208,100343>>,
    <<100352,101589>>, <<101632,101640>>, <<110576,110579>>, <<110581,110587>>,
    <<110589,110590>>, <<110592,110882>>, <<110928,110930>>, <<110948,110951>>,
    <<110960,111355>>, <<113664,113770>>, <<113776,113788>>, <<113792,113800>>,
    <<113808,113817>>, <<119520,119539>>, <<119648,119672>>, <<119808,119892>>,
    <<119894,119964>>, <<119966,119967>>, <<119970,119970>>, <<119973,119974>>,
    <<119977,119980>>, <<119982,119993>>, <<119995,119995>>, <<119997,120003>>,
    <<120005,120069>>, <<120071,120074>>, <<120077,120084>>, <<120086,120092>>,
    <<120094,120121>>, <<120123,120126>>, <<120128,120132>>, <<120134,120134>>,
    <<120138,120144>>, <<120146,120485>>, <<120488,120512>>, <<120514,120538>>,
    <<120540,120570>>, <<120572,120596>>, <<120598,120628>>, <<120630,120654>>,
    <<120656,120686>>, <<120688,120712>>, <<120714,120744>>, <<120746,120770>>,
    <<120772,120779>>, <<120782,120831>>, <<122624,122654>>, <<123136,123180>>,
    <<123191,123197>>, <<123200,123209>>, <<123214,123214>>, <<123536,123565>>,
    <<123584,123627>>, <<123632,123641>>, <<124896,124902>>, <<124904,124907>>,
    <<124909,124910>>, <<124912,124926>>, <<124928,125124>>, <<125127,125135>>,
    <<125184,125251>>, <<125259,125259>>, <<125264,125273>>, <<126065,126123>>,
    <<126125,126127>>, <<126129,126132>>, <<126209,126253>>, <<126255,126269>>,
    <<126464,126467>>, <<126469,126495>>, <<126497,126498>>, <<126500,126500>>,
    <<126503,126503>>, <<126505,126514>>, <<126516,126519>>, <<126521,126521>>,
    <<126523,126523>>, <<126530,126530>>, <<126535,126535>>, <<126537,126537>>,
    <<126539,126539>>, <<126541,126543>>, <<126545,126546>>, <<126548,126548>>,
    <<126551,126551>>, <<126553,126553>>, <<126555,126555>>, <<126557,126557>>,
    <<126559,126559>>, <<126561,126562>>, <<126564,126564>>, <<126567,126570>>,
    <<126572,126578>>, <<126580,126583>>, <<126585,126588>>, <<126590,126590>>,
    <<126592,126601>>, <<126603,126619>>, <<126625,126627>>, <<126629,126633>>,
    <<126635,126651>>, <<127232,127244>>, <<130032,130041>>, <<131072,173791>>,
    <<173824,177976>>, <<177984,178205>>, <<178208,183969>>, <<183984,191456>>,
    <<194560,195101>>, <<196608,201546>> >>

IsWordChar(c) ==
    IF c < 128
    THEN (48 <= c /\ c <= 57) \/ (65 <= c /\ c <= 90) \/ c = 95 \/ (97 <= c /\ c <= 122)
    ELSE InRanges(c, WordRanges)

\* a run <<first, last, step, delta>> of a case mapping: every step-th
\* character from first to last is mapped to itself plus delta
InRun(c, r) == r[1] <= c /\ c <= r[2] /\ (c - r[1]) % r[3] = 0

RunDelta(c, runs) ==
    IF \E i \in 1..Len(runs) : InRun(c, runs[i])
    THEN runs[CHOOSE i \in 1..Len(runs) : InRun(c, runs[i])][4]
    ELSE 0

\* the entry of c in a table of pairs <<character, text>>, <<>> if it has none
FullMapping(c, table) ==
    IF \E i \in 1..Len(table) : table[i][1] = c
    THEN table[CHOOSE i \in 1..Len(table) : table[i][1] = c][2]
    ELSE <<>>

\* str.upper(), the characters mapped to one character
UpperRuns == <<
    <<97,122,1,-32>>, <<181,181,1,743>>, <<224,246,1,-32>>, <<248,254,1,-32>>,
    <<255,255,1,121>>, <<257,303,2,-1>>, <<305,305,1,-232>>, <<307,311,2,-1>>,
    <<314,328,2,-1>>, <<331,375,2,-1>>, <<378,382,2,-1>>, <<383,383,1,-300>>,
    <<384,384,1,195>>, <<387,389,2,-1>>, <<392,392,1,-1>>, <<396,396,1,-1>>,
    <<402,402,1,-1>>, <<405,405,1,97>>, <<409,409,1,-1>>, <<410,410,1,163>>,
    <<414,414,1,130>>, <<417,421,2,-1>>, <<424,424,1,-1>>, <<429,429,1,-1>>,
    <<432,432,1,-1>>, <<436,438,2,-1>>, <<441,441,1,-1>>, <<445,445,1,-1>>,
    <<447,447,1,56>>, <<453,453,1,-1>>, <<454,454,1,-2>>, <<456,456,1,-1>>,
    <<457,457,1,-2>>, <<459,459,1,-1>>, <<460,460,1,-2>>, <<462,476,2,-1>>,
    <<477,477,1,-79>>, <<479,495,2,-1>>, <<498,498,1,-1>>, <<499,499,1,-2>>,
    <<501,501,1,-1>>, <<505,543,2,-1>>, <<547,563,2,-1>>, <<572,572,1,-1>>,
    <<575,576,1,10815>>, <<578,578,1,-1>>, <<583,591,2,-1>>, <<592,592,1,10783>>,
    <<593,593,1,10780>>, <<594,594,1,10782>>, <<595,595,1,-210>>, <<596,596,1,-206>>,
    <<598,599,1,-205>>, <<601,601,1,-202>>, <<603,603,1,-203>>, <<604,604,1,42319>>,
    <<608,608,1,-205>>, <<609,609,1,42315>>, <<611,611,1,-207>>, <<613,613,1,42280>>,
    <<614,614,1,42308>>, <<616,616,1,-209>>, <<617,617,1,-211>>, <<618,618,1,42308>>,
    <<619,619,1,10743>>, <<620,620,1,42305>>, <<623,623,1,-211>>, <<625,625,1,10749>>,
    <<626,626,1,-213>>, <<629,629,1,-214>>, <<637,637,1,10727>>, <<640,640,1,-218>>,
    <<642,642,1,42307>>, <<643,643,1,-218>>, <<647,647,1,42282>>, <<648,648,1,-218>>,
    <<649,649,1,-69>>, <<650,651,1,-217>>, <<652,652,1,-71>>, <<658,658,1,-219>>,
    <<669,669,1,42261>>, <<670,670,1,42258>>, <<837,837,1,84>>, <<881,883,2,-1>>,
    <<887,887,1,-1>>, <<891,893,1,130>>, <<940,940,1,-38>>, <<941,943,1,-37>>,
    <<945,961,1,-32>>, <<962,962,1,-31>>, <<963,971,1,-32>>, <<972,972,1,-64>>,
    <<973,974,1,-63>>, <<976,976,1,-62>>, <<977,977,1,-57>>, <<981,981,1,-47>>,
    <<982,982,1,-54>>, <<983,983,1,-8>>, <<985,1007,2,-1>>, <<1008,1008,1,-86>>,
    <<1009,1009,1,-80>>, <<1010,1010,1,7>>, <<1011,1011,1,-116>>, <<1013,1013,1,-96>>,
    <<1016,1016,1,-1>>, <<1019,1019,1,-1>>, <<1072,1103,1,-32>>, <<1104,1119,1,-80>>,
    <<1121,1153,2,-1>>, <<1163,1215,2,-1>>, <<1218,1230,2,-1>>, <<1231,1231,1,-15>>,
    <<1233,1327,2,-1>>, <<1377,1414,1,-48>>, <<4304,4346,1,3008>>, <<4349,4351,1,3008>>,
    <<5112,5117,1,-8>>, <<7296,7296,1,-6254>>, <<7297,7297,1,-6253>>,
    <<7298,7298,1,-6244>>, <<7299,7300,1,-6242>>, <<7301,7301,1,-6243>>,
    <<7302,7302,1,-6236>>, <<7303,7303,1,-6181>>, <<7304,7304,1,35266>>,
    <<7545,7545,1,35332>>, <<7549,7549,1,3814>>, <<7566,7566,1,35384>>,
    <<7681,7829,2,-1>>, <<7835,7835,1,-59>>, <<7841,7935,2,-1>>, <<7936,7943,1,8>>,
    <<7952,7957,1,8>>, <<7968,7975,1,8>>, <<7984,7991,1,8>>, <<8000,8005,1,8>>,
    <<8017,8023,2,8>>, <<8032,8039,1,8>>, <<8048,8049,1,74>>, <<8050,8053,1,86>>,
    <<8054,8055,1,100>>, <<8056,8057,1,128>>, <<8058,8059,1,112>>, <<8060,8061,1,126>>,
    <<8112,8113,1,8>>, <<8126,8126,1,-7205>>, <<8144,8145,1,8>>, <<8160,8161,1,8>>,
    <<8165,8165,1,7>>, <<8526,8526,1,-28>>, <<8560,8575,1,-16>>, <<8580,8580,1,-1>>,
    <<9424,9449,1,-26>>, <<11312,11359,1,-48>>, <<11361,11361,1,-1>>,
    <<11365,11365,1,-10795>>, <<11366,11366,1,-10792>>, <<11368,11372,2,-1>>,
    <<11379,11379,1,-1>>, <<11382,11382,1,-1>>, <<11393,11491,2,-1>>,
    <<11500,11502,2,-1>>, <<11507,11507,1,-1>>, <<11520,11557,1,-7264>>,
    <<11559,11559,1,-7264>>, <<11565,11565,1,-7264>>, <<42561,42605,2,-1>>,
    <<42625,42651,2,-1>>, <<42787,42799,2,-1>>, <<42803,42863,2,-1>>,
    <<42874,42876,2,-1>>, <<42879,42887,2,-1>>, <<42892,42892,1,-1>>,
    <<42897,42899,2,-1>>, <<42900,42900,1,48>>, <<42903,42921,2,-1>>,
    <<42933,42947,2,-1>>, <<42952,42954,2,-1>>, <<42961,42961,1,-1>>,
    <<42967,42969,2,-1>>, <<42998,42998,1,-1>>, <<43859,43859,1,-928>>,
    <<43888,43967,1,-38864>>, <<65345,65370,1,-32>>, <<66600,66639,1,-40>>,
    <<66776,66811,1,-40>>, <<66967,66977,1,-39>>, <<66979,66993,1,-39>>,
    <<66995,67001,1,-39>>, <<67003,67004,1,-39>>, <<68800,68850,1,-64>>,
    <<71872,71903,1,-32>>, <<93792,93823,1,-32>>, <<125218,125251,1,-34>> >>

\* str.upper(), the characters mapped to more than one character
UpperFull == <<
    <<223,<<83,83>>>>, <<329,<<700,78>>>>, <<496,<<74,780>>>>, <<912,<<921,776,769>>>>,
    <<944,<<933,776,769>>>>, <<1415,<<1333,1362>>>>, <<7830,<<72,817>>>>,
    <<7831,<<84,776>>>>, <<7832,<<87,778>>>>, <<7833,<<89,778>>>>, <<7834,<<65,702>>>>,
    <<8016,<<933,787>>>>, <<8018,<<933,787,768>>>>, <<8020,<<933,787,769>>>>,
    <<8022,<<933,787,834>>>>, <<8064,<<7944,921>>>>, <<8065,<<7945,921>>>>,
    <<8066,<<7946,921>>>>, <<8067,<<7947,921>>>>, <<8068,<<7948,921>>>>,
    <<8069,<<7949,921>>>>, <<8070,<<7950,921>>>>, <<8071,<<7951,921>>>>,
    <<8072,<<7944,921>>>>, <<8073,<<7945,921>>>>, <<8074,<<7946,921>>>>,
    <<8075,<<7947,921>>>>, <<8076,<<7948,921>>>>, <<8077,<<7949,921>>>>,
    <<8078,<<7950,921>>>>, <<8079,<<7951,921>>>>, <<8080,<<7976,921>>>>,
    <<8081,<<7977,921>>>>, <<8082,<<7978,921>>>>, <<8083,<<7979,921>>>>,
    <<8084,<<7980,921>>>>, <<8085,<<7981,921>>>>, <<8086,<<7982,921>>>>,
    <<8087,<<7983,921>>>>, <<8088,<<7976,921>>>>, <<8089,<<7977,921>>>>,
    <<8090,<<7978,921>>>>, <<8091,<<7979,921>>>>, <<8092,<<7980,921>>>>,
    <<8093,<<7981,921>>>>, <<8094,<<7982,921>>>>, <<8095,<<7983,921>>>>,
    <<8096,<<8040,921>>>>, <<8097,<<8041,921>>>>, <<8098,<<8042,921>>>>,
    <<8099,<<8043,921>>>>, <<8100,<<8044,921>>>>, <<8101,<<8045,921>>>>,
    <<8102,<<8046,921>>>>, <<8103,<<8047,921>>>>, <<8104,<<8040,921>>>>,
    <<8105,<<8041,921>>>>, <<8106,<<8042,921>>>>, <<8107,<<8043,921>>>>,
    <<8108,<<8044,921>>>>, <<8109,<<8045,921>>>>, <<8110,<<8046,921>>>>,
    <<8111,<<8047,921>>>>, <<8114,<<8122,921>>>>, <<8115,<<913,921>>>>,
    <<8116,<<902,921>>>>, <<8118,<<913,834>>>>, <<8119,<<913,834,921>>>>,
    <<8124,<<913,921>>>>, <<8130,<<8138,921>>>>, <<8131,<<919,921>>>>,
    <<8132,<<905,921>>>>, <<8134,<<919,834>>>>, <<8135,<<919,834,921>>>>,
    <<8140,<<919,921>>>>, <<8146,<<921,776,768>>>>, <<8147,<<921,776,769>>>>,
    <<8150,<<921,834>>>>, <<8151,<<921,776,834>>>>, <<8162,<<933,776,768>>>>,
    <<8163,<<933,776,769>>>>, <<8164,<<929,787>>>>, <<8166,<<933,834>>>>,
    <<8167,<<933,776,834>>>>, <<8178,<<8186,921>>>>, <<8179,<<937,921>>>>,
    <<8180,<<911,921>>>>, <<8182,<<937,834>>>>, <<8183,<<937,834,921>>>>,
    <<8188,<<937,921>>>>, <<64256,<<70,70>>>>, <<64257,<<70,73>>>>, <<64258,<<70,76>>>>,
    <<64259,<<70,70,73>>>>, <<64260,<<70,70,76>>>>, <<64261,<<83,84>>>>,
    <<64262,<<83,84>>>>, <<64275,<<1348,1350>>>>, <<64276,<<1348,1333>>>>,
    <<64277,<<1348,1339>>>>, <<64278,<<1358,1350>>>>, <<64279,<<1348,1341>>>> >>

\* str.lower(), the characters mapped to one character (but U+03A3)
LowerRuns == <<
    <<65,90,1,32>>, <<192,214,1,32>>, <<216,222,1,32>>, <<256,302,2,1>>,
    <<306,310,2,1>>, <<313,327,2,1>>, <<330,374,2,1>>, <<376,376,1,-121>>,
    <<377,381,2,1>>, <<385,385,1,210>>, <<386,388,2,1>>, <<390,390,1,206>>,
    <<391,391,1,1>>, <<393,394,1,205>>, <<395,395,1,1>>, <<398,398,1,79>>,
    <<399,399,1,202>>, <<400,400,1,203>>, <<401,401,1,1>>, <<403,403,1,205>>,
    <<404,404,1,207>>, <<406,406,1,211>>, <<407,407,1,209>>, <<408,408,1,1>>,
    <<412,412,1,211>>, <<413,413,1,213>>, <<415,415,1,214>>, <<416,420,2,1>>,
    <<422,422,1,218>>, <<423,423,1,1>>, <<425,425,1,218>>, <<428,428,1,1>>,
    <<430,430,1,218>>, <<431,431,1,1>>, <<433,434,1,217>>, <<435,437,2,1>>,
    <<439,439,1,219>>, <<440,440,1,1>>, <<444,444,1,1>>, <<452,452,1,2>>,
    <<453,453,1,1>>, <<455,455,1,2>>, <<456,456,1,1>>, <<458,458,1,2>>, <<459,475,2,1>>,
    <<478,494,2,1>>, <<497,497,1,2>>, <<498,500,2,1>>, <<502,502,1,-97>>,
    <<503,503,1,-56>>, <<504,542,2,1>>, <<544,544,1,-130>>, <<546,562,2,1>>,
    <<570,570,1,10795>>, <<571,571,1,1>>, <<573,573,1,-163>>, <<574,574,1,10792>>,
    <<577,577,1,1>>, <<579,579,1,-195>>, <<580,580,1,69>>, <<581,581,1,71>>,
    <<582,590,2,1>>, <<880,882,2,1>>, <<886,886,1,1>>, <<895,895,1,116>>,
    <<902,902,1,38>>, <<904,906,1,37>>, <<908,908,1,64>>, <<910,911,1,63>>,
    <<913,929,1,32>>, <<932,939,1,32>>, <<975,975,1,8>>, <<984,1006,2,1>>,
    <<1012,1012,1,-60>>, <<1015,1015,1,1>>, <<1017,1017,1,-7>>, <<1018,1018,1,1>>,
    <<1021,1023,1,-130>>, <<1024,1039,1,80>>, <<1040,1071,1,32>>, <<1120,1152,2,1>>,
    <<1162,1214,2,1>>, <<1216,1216,1,15>>, <<1217,1229,2,1>>, <<1232,1326,2,1>>,
    <<1329,1366,1,48>>, <<4256,4293,1,7264>>, <<4295,4295,1,7264>>,
    <<4301,4301,1,7264>>, <<5024,5103,1,38864>>, <<5104,5109,1,8>>,
    <<7312,7354,1,-3008>>, <<7357,7359,1,-3008>>, <<7680,7828,2,1>>,
    <<7838,7838,1,-7615>>, <<7840,7934,2,1>>, <<7944,7951,1,-8>>, <<7960,7965,1,-8>>,
    <<7976,7983,1,-8>>, <<7992,7999,1,-8>>, <<8008,8013,1,-8>>, <<8025,8031,2,-8>>,
    <<8040,8047,1,-8>>, <<8072,8079,1,-8>>, <<8088,8095,1,-8>>, <<8104,8111,1,-8>>,
    <<8120,8121,1,-8>>, <<8122,8123,1,-74>>, <<8124,8124,1,-9>>, <<8136,8139,1,-86>>,
    <<8140,8140,1,-9>>, <<8152,8153,1,-8>>, <<8154,8155,1,-100>>, <<8168,8169,1,-8>>,
    <<8170,8171,1,-112>>, <<8172,8172,1,-7>>, <<8184,8185,1,-128>>,
    <<8186,8187,1,-126>>, <<8188,8188,1,-9>>, <<8486,8486,1,-7517>>,
    <<8490,8490,1,-8383>>, <<8491,8491,1,-8262>>, <<8498,8498,1,28>>,
    <<8544,8559,1,16>>, <<8579,8579,1,1>>, <<9398,9423,1,26>>, <<11264,11311,1,48>>,
    <<11360,11360,1,1>>, <<11362,11362,1,-10743>>, <<11363,11363,1,-3814>>,
    <<11364,11364,1,-10727>>, <<11367,11371,2,1>>, <<11373,11373,1,-10780>>,
    <<11374,11374,1,-10749>>, <<11375,11375,1,-10783>>, <<11376,11376,1,-10782>>,
    <<11378,11378,1,1>>, <<11381,11381,1,1>>, <<11390,11391,1,-10815>>,
    <<11392,11490,2,1>>, <<11499,11501,2,1>>, <<11506,11506,1,1>>, <<42560,42604,2,1>>,
    <<42624,42650,2,1>>, <<42786,42798,2,1>>, <<42802,42862,2,1>>, <<42873,42875,2,1>>,
    <<42877,42877,1,-35332>>, <<42878,42886,2,1>>, <<42891,42891,1,1>>,
    <<42893,42893,1,-42280>>, <<42896,42898,2,1>>, <<42902,42920,2,1>>,
    <<42922,42922,1,-42308>>, <<42923,42923,1,-42319>>, <<42924,42924,1,-42315>>,
    <<42925,42925,1,-42305>>, <<42926,42926,1,-42308>>, <<42928,42928,1,-42258>>,
    <<42929,42929,1,-42282>>, <<42930,42930,1,-42261>>, <<42931,42931,1,928>>,
    <<42932,42946,2,1>>, <<42948,42948,1,-48>>, <<42949,42949,1,-42307>>,
    <<42950,42950,1,-35384>>, <<42951,42953,2,1>>, <<42960,42960,1,1>>,
    <<42966,42968,2,1>>, <<42997,42997,1,1>>, <<65313,65338,1,32>>,
    <<66560,66599,1,40>>, <<66736,66771,1,40>>, <<66928,66938,1,39>>,
    <<66940,66954,1,39>>, <<66956,66962,1,39>>, <<66964,66965,1,39>>,
    <<68736,68786,1,64>>, <<71840,71871,1,32>>, <<93760,93791,1,32>>,
    <<125184,125217,1,34>> >>

\* str.lower(), the character mapped to more than one character
LowerFull == <<
    <<304,<<105,775>>>> >>

\* the characters that are cased and not case-ignorable
CasedRanges == <<
    <<65,90>>, <<97,122>>, <<170,170>>, <<181,181>>, <<186,186>>, <<192,214>>,
    <<216,246>>, <<248,442>>, <<444,447>>, <<452,659>>, <<661,687>>, <<880,883>>,
    <<886,887>>, <<891,893>>, <<895,895>>, <<902,902>>, <<904,906>>, <<908,908>>,
    <<910,929>>, <<931,1013>>, <<1015,1153>>, <<1162,1327>>, <<1329,1366>>,
    <<1376,1416>>, <<4256,4293>>, <<4295,4295>>, <<4301,4301>>, <<4304,4346>>,
    <<4349,4351>>, <<5024,5109>>, <<5112,5117>>, <<7296,7304>>, <<7312,7354>>,
    <<7357,7359>>, <<7424,7467>>, <<7531,7543>>, <<7545,7578>>, <<7680,7957>>,
    <<7960,7965>>, <<7968,8005>>, <<8008,8013>>, <<8016,8023>>, <<8025,8025>>,
    <<8027,8027>>, <<8029,8029>>, <<8031,8061>>, <<8064,8116>>, <<8118,8124>>,
    <<8126,8126>>, <<8130,8132>>, <<8134,8140>>, <<8144,8147>>, <<8150,8155>>,
    <<8160,8172>>, <<8178,8180>>, <<8182,8188>>, <<8450,8450>>, <<8455,8455>>,
    <<8458,8467>>, <<8469,8469>>, <<8473,8477>>, <<8484,8484>>, <<8486,8486>>,
    <<8488,8488>>, <<8490,8493>>, <<8495,8500>>, <<8505,8505>>, <<8508,8511>>,
    <<8517,8521>>, <<8526,8526>>, <<8544,8575>>, <<8579,8580>>, <<9398,9449>>,
    <<11264,11387>>, <<11390,11492>>, <<11499,11502>>, <<11506,11507>>, <<11520,11557>>,
    <<11559,11559>>, <<11565,11565>>, <<42560,42605>>, <<42624,42651>>, <<42786,42863>>,
    <<42865,42887>>, <<42891,42894>>, <<42896,42954>>, <<42960,42961>>, <<42963,42963>>,
    <<42965,42969>>, <<42997,42998>>, <<43002,43002>>, <<43824,43866>>, <<43872,43880>>,
    <<43888,43967>>, <<64256,64262>>, <<64275,64279>>, <<65313,65338>>, <<65345,65370>>,
    <<66560,66639>>, <<66736,66771>>, <<66776,66811>>, <<66928,66938>>, <<66940,66954>>,
    <<66956,66962>>, <<66964,66965>>, <<66967,66977>>, <<66979,66993>>, <<66995,67001>>,
    <<67003,67004>>, <<68736,68786>>, <<68800,68850>>, <<71840,71903>>, <<93760,93823>>,
    <<119808,119892>>, <<119894,119964>>, <<119966,119967>>, <<119970,119970>>,
    <<119973,119974>>, <<119977,119980>>, <<119982,119993>>, <<119995,119995>>,
    <<119997,120003>>, <<120005,120069>>, <<120071,120074>>, <<120077,120084>>,
    <<120086,120092>>, <<120094,120121>>, <<120123,120126>>, <<120128,120132>>,
    <<120134,120134>>, <<120138,120144>>, <<120146,120485>>, <<120488,120512>>,
    <<120514,120538>>, <<120540,120570>>, <<120572,120596>>, <<120598,120628>>,
    <<120630,120654>>, <<120656,120686>>, <<120688,120712>>, <<120714,120744>>,
    <<120746,120770>>, <<120772,120779>>, <<122624,122633>>, <<122635,122654>>,
    <<125184,125251>>, <<127280,127305>>, <<127312,127337>>, <<127344,127369>> >>

\* the case-ignorable characters
CaseIgnorableRanges == <<
    <<39,39>>, <<46,46>>, <<58,58>>, <<94,94>>, <<96,96>>, <<168,168>>, <<173,173>>,
    <<175,175>>, <<180,180>>, <<183,184>>, <<688,879>>, <<884,885>>, <<890,890>>,
    <<900,901>>, <<903,903>>, <<1155,1161>>, <<1369,1369>>, <<1375,1375>>,
    <<1425,1469>>, <<1471,1471>>, <<1473,1474>>, <<1476,1477>>, <<1479,1479>>,
    <<1524,1524>>, <<1536,1541>>, <<1552,1562>>, <<1564,1564>>, <<1600,1600>>,
    <<1611,1631>>, <<1648,1648>>, <<1750,1757>>, <<1759,1768>>, <<1770,1773>>,
    <<1807,1807>>, <<1809,1809>>, <<1840,1866>>, <<1958,1968>>, <<2027,2037>>,
    <<2042,2042>>, <<2045,2045>>, <<2070,2093>>, <<2137,2139>>, <<2184,2184>>,
    <<2192,2193>>, <<2200,2207>>, <<2249,2306>>, <<2362,2362>>, <<2364,2364>>,
    <<2369,2376>>, <<2381,2381>>, <<2385,2391>>, <<2402,2403>>, <<2417,2417>>,
    <<2433,2433>>, <<2492,2492>>, <<2497,2500>>, <<2509,2509>>, <<2530,2531>>,
    <<2558,2558>>, <<2561,2562>>, <<2620,2620>>, <<2625,2626>>, <<2631,2632>>,
    <<2635,2637>>, <<2641,2641>>, <<2672,2673>>, <<2677,2677>>, <<2689,2690>>,
    <<2748,2748>>, <<2753,2757>>, <<2759,2760>>, <<2765,2765>>, <<2786,2787>>,
    <<2810,2815>>, <<2817,2817>>, <<2876,2876>>, <<2879,2879>>, <<2881,2884>>,
    <<2893,2893>>, <<2901,2902>>, <<2914,2915>>, <<2946,2946>>, <<3008,3008>>,
    <<3021,3021>>, <<3072,3072>>, <<3076,3076>>, <<3132,3132>>, <<3134,3136>>,
    <<3142,3144>>, <<3146,3149>>, <<3157,3158>>, <<3170,3171>>, <<3201,3201>>,
    <<3260,3260>>, <<3263,3263>>, <<3270,3270>>, <<3276,3277>>, <<3298,3299>>,
    <<3328,3329>>, <<3387,3388>>, <<3393,3396>>, <<3405,3405>>, <<3426,3427>>,
    <<3457,3457>>, <<3530,3530>>, <<3538,3540>>, <<3542,3542>>, <<3633,3633>>,
    <<3636,3642>>, <<3654,3662>>, <<3761,3761>>, <<3764,3772>>, <<3782,3782>>,
    <<3784,3789>>, <<3864,3865>>, <<3893,3893>>, <<3895,3895>>, <<3897,3897>>,
    <<3953,3966>>, <<3968,3972>>, <<3974,3975>>, <<3981,3991>>, <<3993,4028>>,
    <<4038,4038>>, <<4141,4144>>, <<4146,4151>>, <<4153,4154>>, <<4157,4158>>,
    <<4184,4185>>, <<4190,4192>>, <<4209,4212>>, <<4226,4226>>, <<4229,4230>>,
    <<4237,4237>>, <<4253,4253>>, <<4348,4348>>, <<4957,4959>>, <<5906,5908>>,
    <<5938,5939>>, <<5970,5971>>, <<6002,6003>>, <<6068,6069>>, <<6071,6077>>,
    <<6086,6086>>, <<6089,6099>>, <<6103,6103>>, <<6109,6109>>, <<6155,6159>>,
    <<6211,6211>>, <<6277,6278>>, <<6313,6313>>, <<6432,6434>>, <<6439,6440>>,
    <<6450,6450>>, <<6457,6459>>, <<6679,6680>>, <<6683,6683>>, <<6742,6742>>,
    <<6744,6750>>, <<6752,6752>>, <<6754,6754>>, <<6757,6764>>, <<6771,6780>>,
    <<6783,6783>>, <<6823,6823>>, <<6832,6862>>, <<6912,6915>>, <<6964,6964>>,
    <<6966,6970>>, <<6972,6972>>, <<6978,6978>>, <<7019,7027>>, <<7040,7041>>,
    <<7074,7077>>, <<7080,7081>>, <<7083,7085>>, <<7142,7142>>, <<7144,7145>>,
    <<7149,7149>>, <<7151,7153>>, <<7212,7219>>, <<7222,7223>>, <<7288,7293>>,
    <<7376,7378>>, <<7380,7392>>, <<7394,7400>>, <<7405,7405>>, <<7412,7412>>,
    <<7416,7417>>, <<7468,7530>>, <<7544,7544>>, <<7579,7679>>, <<8125,8125>>,
    <<8127,8129>>, <<8141,8143>>, <<8157,8159>>, <<8173,8175>>, <<8189,8190>>,
    <<8203,8207>>, <<8216,8217>>, <<8228,8228>>, <<8231,8231>>, <<8234,8238>>,
    <<8288,8292>>, <<8294,8303>>, <<8305,8305>>, <<8319,8319>>, <<8336,8348>>,
    <<8400,8432>>, <<11388,11389>>, <<11503,11505>>, <<11631,11631>>, <<11647,11647>>,
    <<11744,11775>>, <<11823,11823>>, <<12293,12293>>, <<12330,12333>>, <<12337,12341>>,
    <<12347,12347>>, <<12441,12446>>, <<12540,12542>>, <<40981,40981>>, <<42232,42237>>,
    <<42508,42508>>, <<42607,42610>>, <<42612,42621>>, <<42623,42623>>, <<42652,42655>>,
    <<42736,42737>>, <<42752,42785>>, <<42864,42864>>, <<42888,42890>>, <<42994,42996>>,
    <<43000,43001>>, <<43010,43010>>, <<43014,43014>>, <<43019,43019>>, <<43045,43046>>,
    <<43052,43052>>, <<43204,43205>>, <<43232,43249>>, <<43263,43263>>, <<43302,43309>>,
    <<43335,43345>>, <<43392,43394>>, <<43443,43443>>, <<43446,43449>>, <<43452,43453>>,
    <<43471,43471>>, <<43493,43494>>, <<43561,43566>>, <<43569,43570>>, <<43573,43574>>,
    <<43587,43587>>, <<43596,43596>>, <<43632,43632>>, <<43644,43644>>, <<43696,43696>>,
    <<43698,43700>>, <<43703,43704>>, <<43710,43711>>, <<43713,43713>>, <<43741,43741>>,
    <<43756,43757>>, <<43763,43764>>, <<43766,43766>>, <<43867,43871>>, <<43881,43883>>,
    <<44005,44005>>, <<44008,44008>>, <<44013,44013>>, <<64286,64286>>, <<64434,64450>>,
    <<65024,65039>>, <<65043,65043>>, <<65056,65071>>, <<65106,65106>>, <<65109,65109>>,
    <<65279,65279>>, <<65287,65287>>, <<65294,65294>>, <<65306,65306>>, <<65342,65342>>,
    <<65344,65344>>, <<65392,65392>>, <<65438,65439>>, <<65507,65507>>, <<65529,65531>>,
    <<66045,66045>>, <<66272,66272>>, <<66422,66426>>, <<67456,67461>>, <<67463,67504>>,
    <<67506,67514>>, <<68097,68099>>, <<68101,68102>>, <<68108,68111>>, <<68152,68154>>,
    <<68159,68159>>, <<68325,68326>>, <<68900,68903>>, <<69291,69292>>, <<69446,69456>>,
    <<69506,69509>>, <<69633,69633>>, <<69688,69702>>, <<69744,69744>>, <<69747,69748>>,
    <<69759,69761>>, <<69811,69814>>, <<69817,69818>>, <<69821,69821>>, <<69826,69826>>,
    <<69837,69837>>, <<69888,69890>>, <<69927,69931>>, <<69933,69940>>, <<70003,70003>>,
    <<70016,70017>>, <<70070,70078>>, <<70089,70092>>, <<70095,70095>>, <<70191,70193>>,
    <<70196,70196>>, <<70198,70199>>, <<70206,70206>>, <<70367,70367>>, <<70371,70378>>,
    <<70400,70401>>, <<70459,70460>>, <<70464,70464>>, <<70502,70508>>, <<70512,70516>>,
    <<70712,70719>>, <<70722,70724>>, <<70726,70726>>, <<70750,70750>>, <<70835,70840>>,
    <<70842,70842>>, <<70847,70848>>, <<70850,70851>>, <<71090,71093>>, <<71100,71101>>,
    <<71103,71104>>, <<71132,71133>>, <<71219,71226>>, <<71229,71229>>, <<71231,71232>>,
    <<71339,71339>>, <<71341,71341>>, <<71344,71349>>, <<71351,71351>>, <<71453,71455>>,
    <<71458,71461>>, <<71463,71467>>, <<71727,71735>>, <<71737,71738>>, <<71995,71996>>,
    <<71998,71998>>, <<72003,72003>>, <<72148,72151>>, <<72154,72155>>, <<72160,72160>>,
    <<72193,72202>>, <<72243,72248>>, <<72251,72254>>, <<72263,72263>>, <<72273,72278>>,
    <<72281,72283>>, <<72330,72342>>, <<72344,72345>>, <<72752,72758>>, <<72760,72765>>,
    <<72767,72767>>, <<72850,72871>>, <<72874,72880>>, <<72882,72883>>, <<72885,72886>>,
    <<73009,73014>>, <<73018,73018>>, <<73020,73021>>, <<73023,73029>>, <<73031,73031>>,
    <<73104,73105>>, <<73109,73109>>, <<73111,73111>>, <<73459,73460>>, <<78896,78904>>,
    <<92912,92916>>, <<92976,92982>>, <<92992,92995>>, <<94031,94031>>, <<94095,94111>>,
    <<94176,94177>>, <<94179,94180>>, <<110576,110579>>, <<110581,110587>>,
    <<110589,110590>>, <<113821,113822>>, <<113824,113827>>, <<118528,118573>>,
    <<118576,118598>>, <<119143,119145>>, <<119155,119170>>, <<119173,119179>>,
    <<119210,119213>>, <<119362,119364>>, <<121344,121398>>, <<121403,121452>>,
    <<121461,121461>>, <<121476,121476>>, <<121499,121503>>, <<121505,121519>>,
    <<122880,122886>>, <<122888,122904>>, <<122907,122913>>, <<122915,122916>>,
    <<122918,122922>>, <<123184,123197>>, <<123566,123566>>, <<123628,123631>>,
    <<125136,125142>>, <<125252,125259>>, <<127995,127999>>, <<917505,917505>>,
    <<917536,917631>>, <<917760,917999>> >>

\* what str.upper() makes of the character c: a text of one to three characters
UpperChar(c) ==
    IF c < 128 THEN (IF 97 <= c /\ c <= 122 THEN <<c - 32>> ELSE <<c>>)
    ELSE IF FullMapping(c, UpperFull) # <<>> THEN FullMapping(c, UpperFull)
    ELSE <<c + RunDelta(c, UpperRuns)>>

\* is the capital sigma at position i of s the last cased character of a word
FinalSigma(s, i) ==
    LET before == {j \in 1..(i - 1) : ~InRanges(s[j], CaseIgnorableRanges)}
        after  == {j \in (i + 1)..Len(s) : ~InRanges(s[j], CaseIgnorableRanges)}
    IN  /\ before # {}
        /\ InRanges(s[CHOOSE j \in before : \A k \in before : k <= j], CasedRanges)
        /\ \/ after = {}
           \/ ~InRanges(s[CHOOSE j \in after : \A k \in after : j <= k], CasedRanges)

\* what str.lower() makes of the character at position i of s
LowerChar(s, i) ==
    LET c == s[i]
    IN  IF c < 128 THEN (IF 65 <= c /\ c <= 90 THEN <<c + 32>> ELSE <<c>>)
        ELSE IF c = 931 THEN (IF FinalSigma(s, i) THEN <<962>> ELSE <<963>>)
        ELSE IF FullMapping(c, LowerFull) # <<>> THEN FullMapping(c, LowerFull)
        ELSE <<c + RunDelta(c, LowerRuns)>>

\* the texts of ts one after the other
RECURSIVE Concat(_)
Concat(ts) == IF ts = <<>> THEN <<>> ELSE ts[1] \o Concat(Tail(ts))

\* the texts of ts one after the other, each of them being one character long
\* in the usual case
Flatten(ts) ==
    IF \A i \in 1..Len(ts) : Len(ts[i]) = 1
    THEN [i \in 1..Len(ts) |-> ts[i][1]]
    ELSE Concat(ts)

\* str.upper()
Upper(s) == Flatten([i \in 1..Len(s) |-> UpperChar(s[i])])

\* str.lower()
Lower(s) == Flatten([i \in 1..Len(s) |-> LowerChar(s, i)])

\* k in s
Contains(s, k) ==
    \E i \in 1..(Len(s) - Len(k) + 1) : \A j \in 1..Len(k) : s[i + j - 1] = k[j]

\* s.startswith(k)
StartsWith(s, k) == Len(s) >= Len(k) /\ \A j \in 1..Len(k) : s[j] = k[j]

\* s[:n]
Prefix(s, n) == SubSeq(s, 1, IF Len(s) < n THEN Len(s) ELSE n)

\* c * n
Rep(c, n) == [i \in 1..n |-> c]

\* F of the value of e, with e evaluated once
Value(e, F(_)) == CHOOSE r \in {F(x) : x \in {e}} : TRUE

\* the least i in lo..hi with P[i], or hi + 1 if there is none
\* (P is a function on lo..hi; the scan is from the left)
FirstIn(lo, hi, P) ==
    IF \E i \in lo..hi : P[i]
    THEN CHOOSE i \in lo..hi : P[i] /\ \A j \in lo..(i - 1) : ~P[j]
    ELSE hi + 1

\* index of the first non-blank character at or after i, Len(s) + 1 if none
FirstNonWs(s, i) == FirstIn(i, Len(s), [j \in i..Len(s) |-> s[j] \notin Whitespace])

\* index of the last non-blank character, 0 if none
LastNonWs(s) ==
    IF \E i \in 1..Len(s) : s[i] \notin Whitespace
    THEN CHOOSE i \in 1..Len(s) :
             s[i] \notin Whitespace /\ \A j \in (i + 1)..Len(s) : s[j] \in Whitespace
    ELSE 0

\* str.strip()
Strip(s) == SubSeq(s, FirstNonWs(s, 1), LastNonWs(s))

\* does p occur in s at position i
OccursAt(s, p, i) == i + Len(p) - 1 <= Len(s) /\ \A j \in 1..Len(p) : s[i + j - 1] = p[j]

\* s.find(p) + 1: index of the first occurrence of p in s, 0 if none
Find(s, p) ==
    IF \E i \in 1..Len(s) : OccursAt(s, p, i)
    THEN CHOOSE i \in 1..Len(s) :
             OccursAt(s, p, i) /\ \A j \in 1..(i - 1) : ~OccursAt(s, p, j)
    ELSE 0

\* s.split(c)  (c a single character)
RECURSIVE Split(_, _)
Split(s, c) ==
    LET i == Find(s, <<c>>)
    IN  IF i = 0 THEN <<s>>
        ELSE <<SubSeq(s, 1, i - 1)>> \o Split(SubSeq(s, i + 1, Len(s)), c)

\* s.split(":", 1)[1]  (the caller has checked that ":" occurs)
AfterColon(s) == SubSeq(s, Find(s, T(<<":">>)) + 1, Len(s))

\* s.replace(p, ""): occurrences are removed from the left, without overlap
RECURSIVE Remove(_, _)
Remove(s, p) ==
    IF Len(p) = 1 THEN SelectSeq(s, LAMBDA c : c # p[1])
    ELSE LET i == Find(s, p)
         IN  IF i = 0 THEN s
             ELSE SubSeq(s, 1, i - 1) \o Remove(SubSeq(s, i + Len(p), Len(s)), p)

\* .replace("**", "").replace("*", "")
CleanMarkdown(s) == Remove(Remove(s, T(<<"*","*">>)), T(<<"*">>))

\* "\n".join(ls)
RECURSIVE JoinLines(_)
JoinLines(ls) ==
    IF ls = <<>> THEN <<>>
    ELSE IF Len(ls) = 1 THEN ls[1]
    ELSE ls[1] \o T(<<"\n">>) \o JoinLines(Tail(ls))

\* Optional[str]
None == [isNone |-> TRUE, val |-> <<>>]

Some(s) == [isNone |-> FALSE, val |-> s]

\* truthiness of an Optional[str]: neither None nor ""
Truthy(o) == ~o.isNone /\ o.val # <<>>

(***************************************************************************)
(* _parse_crew_result: title                                               *)
(***************************************************************************)

DefaultTitle ==
    T(<<"P","r","o","d","u","k"," ","B","e","r","k","u","a","l","i","t","a","s">>)

\* the title a line yields (after the marker test), <<>> if the line is no title line
TitlePart(line) ==
    IF (Contains(Upper(line), T(<<"J","U","D","U","L">>)) \/ Contains(Upper(line), T(<<"T","I","T","L","E">>)))
          /\ Contains(line, T(<<":">>))
    THEN Strip(CleanMarkdown(Strip(AfterColon(line))))
    ELSE <<>>

\* the first line whose title part is longer than 5 characters decides
RECURSIVE ExtractTitleFrom(_, _)
ExtractTitleFrom(lines, i) ==
    IF i > Len(lines) THEN DefaultTitle
    ELSE IF Len(TitlePart(lines[i])) > 5 THEN TitlePart(lines[i])
    ELSE ExtractTitleFrom(lines, i + 1)

ExtractTitle(lines) == ExtractTitleFrom(lines, 1)

(***************************************************************************)
(* _parse_crew_result: description                                         *)
(***************************************************************************)

DefaultDescription ==
    T(<<"P","r","o","d","u","k"," ","b","e","r","k","u","a","l","i","t","a","s"," ",
      "d","e","n","g","a","n"," ","h","a","r","g","a"," ",
      "t","e","r","j","a","n","g","k","a","u",".">>)

kwDESKRIPSI == T(<<"D","E","S","K","R","I","P","S","I">>)

kwDESCRIPTION == T(<<"D","E","S","C","R","I","P","T","I","O","N">>)

kwFITUR == T(<<"F","I","T","U","R">>)

kwFEATURE == T(<<"F","E","A","T","U","R","E">>)

kwHASHTAG == T(<<"H","A","S","H","T","A","G">>)

\* a line that opens (or re-opens) the description section
IsDescMarker(line) ==
    (Contains(Upper(line), kwDESKRIPSI) \/ Contains(Upper(line), kwDESCRIPTION))
        /\ Contains(line, T(<<":">>))

\* variant: no line ends the description section
MutDescNeverEnds(line) == FALSE

\* a line that ends the description section
IsDescEnd(line) ==
    \E k \in {kwFITUR, kwFEATURE, kwHASHTAG, T(<<"I","N","F","O",":">>)} : Contains(Upper(line), k)

\* what a marker line contributes: its inline text unless empty or "[...]"
DescInline(line) ==
    LET part == Strip(AfterColon(line))
    IN  IF part # <<>> /\ ~StartsWith(part, T(<<"[">>)) THEN <<part>> ELSE <<>>

\* what a line inside the section contributes
DescBody(line) ==
    LET s == Strip(line)
    IN  IF s # <<>> /\ ~StartsWith(s, T(<<"#">>)) /\ CleanMarkdown(s) # <<>>
        THEN <<CleanMarkdown(s)>> ELSE <<>>

\* the loop over the lines: (in_desc_section, desc_lines) threaded through
RECURSIVE DescLoop(_, _, _, _)
DescLoop(lines, i, inSec, acc) ==
    IF i > Len(lines) THEN acc
    ELSE IF IsDescMarker(lines[i])
         THEN DescLoop(lines, i + 1, TRUE, acc \o DescInline(lines[i]))
    ELSE IF inSec /\ IsDescEnd(lines[i]) THEN acc
    ELSE IF inSec THEN DescLoop(lines, i + 1, TRUE, acc \o DescBody(lines[i]))
    ELSE DescLoop(lines, i + 1, FALSE, acc)

\* "\n".join(desc_lines).strip()
CollectedDescription(lines) == Strip(JoinLines(DescLoop(lines, 1, FALSE, <<>>)))

\* description before the final strip and cut, with its two fallbacks
ExtractDescription(lines, original_user_input) ==
    LET d == CollectedDescription(lines)
    IN  IF d # <<>> THEN d
        ELSE IF Truthy(original_user_input) THEN original_user_input.val
        ELSE DefaultDescription

(***************************************************************************)
(* _parse_crew_result: category                                            *)
(***************************************************************************)

\* schemas/product.py: the members in enumeration order
ProductCategory == <<
    [id |-> "ELECTRONICS", name |-> T(<<"E","L","E","C","T","R","O","N","I","C","S">>),
     value |-> T(<<"e","l","e","c","t","r","o","n","i","c","s">>)],
    [id |-> "FASHION", name |-> T(<<"F","A","S","H","I","O","N">>),
     value |-> T(<<"f","a","s","h","i","o","n">>)],
    [id |-> "FOOD_BEVERAGE", name |-> T(<<"F","O","O","D","_","B","E","V","E","R","A","G","E">>),
     value |-> T(<<"f","o","o","d","_","b","e","v","e","r","a","g","e">>)],
    [id |-> "BEAUTY", name |-> T(<<"B","E","A","U","T","Y">>),
     value |-> T(<<"b","e","a","u","t","y">>)],
    [id |-> "HOME_LIVING", name |-> T(<<"H","O","M","E","_","L","I","V","I","N","G">>),
     value |-> T(<<"h","o","m","e","_","l","i","v","i","n","g">>)],
    [id |-> "SPORTS", name |-> T(<<"S","P","O","R","T","S">>),
     value |-> T(<<"s","p","o","r","t","s">>)],
    [id |-> "AUTOMOTIVE", name |-> T(<<"A","U","T","O","M","O","T","I","V","E">>),
     value |-> T(<<"a","u","t","o","m","o","t","i","v","e">>)],
    [id |-> "BOOKS", name |-> T(<<"B","O","O","K","S">>),
     value |-> T(<<"b","o","o","k","s">>)],
    [id |-> "TOYS", name |-> T(<<"T","O","Y","S">>),
     value |-> T(<<"t","o","y","s">>)],
    [id |-> "OTHER", name |-> T(<<"O","T","H","E","R">>),
     value |-> T(<<"o","t","h","e","r">>)] >>

\* cat.value in result_str.lower() or cat.name.lower() in result_str.lower()
CategoryOccurs(cat, text) ==
    Contains(Lower(text), cat.value) \/ Contains(Lower(text), Lower(cat.name))

\* the loop over ProductCategory, lower being result_str.lower()
RECURSIVE ExtractCategoryFrom(_, _)
ExtractCategoryFrom(lower, i) ==
    IF i > Len(ProductCategory) THEN "OTHER"
    ELSE IF \/ Contains(lower, ProductCategory[i].value)
            \/ Contains(lower, Lower(ProductCategory[i].name))
    THEN ProductCategory[i].id
    ELSE ExtractCategoryFrom(lower, i + 1)

\* variant: the category that occurs first in the text wins
MutFirstInText(text) ==
    LET occ == {i \in 1..Len(ProductCategory) : CategoryOccurs(ProductCategory[i], text)}
    IN  IF occ = {} THEN "OTHER"
        ELSE ProductCategory[CHOOSE i \in occ : \A j \in occ :
                 Find(Lower(text), ProductCategory[i].value)
                     <= Find(Lower(text), ProductCategory[j].value)].id

ExtractCategory(text) == Value(Lower(text), LAMBDA lower : ExtractCategoryFrom(lower, 1))

(***************************************************************************)
(* re.search for the price patterns.  A pattern is a sequence of tokens:   *)
(*   lit   one literal character, compared case-insensitively              *)
(*   ws    \s*        nc    [^:]*        num   ([\d.]+), the only group     *)
(* matched with the greedy, backtracking, leftmost semantics of re.        *)
(***************************************************************************)

Lit(s) == [i \in 1..Len(s) |-> [k |-> "lit", c |-> s[i]]]

WsStar == <<[k |-> "ws", c |-> 0]>>

NotColonStar == <<[k |-> "nc", c |-> 0]>>

NumGroup == <<[k |-> "num", c |-> 0]>>

\* the characters a literal ASCII character p of a pattern matches under
\* re.IGNORECASE: both cases of a letter, and with i, k and s the characters
\* U+0130 and U+0131, U+212A, U+017F, which have them as their other case
IgnoreCaseClass(p) ==
    IF (65 <= p /\ p <= 90) \/ (97 <= p /\ p <= 122)
    THEN LET l == IF p <= 90 THEN p + 32 ELSE p
         IN  {l, l - 32} \cup (CASE l = Ch("i") -> {304, 305}
                                  [] l = Ch("k") -> {8490}
                                  [] l = Ch("s") -> {383}
                                  [] OTHER       -> {})
    ELSE {p}

InClass(k, c) ==
    CASE k = "ws"  -> c \in Whitespace
      [] k = "nc"  -> c # Ch(":")
      [] k = "num" -> c \in Digits \/ c = Ch(".")
      [] OTHER     -> FALSE

\* how many consecutive characters from position pos are in class k
RunLen(text, pos, k) ==
    FirstIn(pos, Len(text), [j \in pos..Len(text) |-> ~InClass(k, text[j])]) - pos

SetMax(S) == CHOOSE x \in S : \A y \in S : y <= x

NoMatch == [ok |-> FALSE, cap |-> <<>>]

\* match tokens pat[k..] at position pos; cap is the text of the group
RECURSIVE MatchFrom(_, _, _, _)
MatchFrom(text, pos, pat, k) ==
    IF k > Len(pat) THEN [ok |-> TRUE, cap |-> <<>>]
    ELSE IF pat[k].k = "lit"
    THEN IF pos <= Len(text) /\ text[pos] \in IgnoreCaseClass(pat[k].c)
         THEN MatchFrom(text, pos + 1, pat, k + 1)
         ELSE NoMatch
    ELSE Value(RunLen(text, pos, pat[k].k), LAMBDA run :
             LET low      == IF pat[k].k = "num" THEN 1 ELSE 0
                 \* the rest of the pattern after n characters of the run
                 after(n) == MatchFrom(text, pos + n, pat, k + 1)
                 taken(n) == IF pat[k].k = "num"
                             THEN [ok |-> TRUE, cap |-> SubSeq(text, pos, pos + n - 1)]
                             ELSE after(n)
             IN  IF run < low THEN NoMatch
                 \* greedy: the whole run if the rest matches after it
                 ELSE Value(after(run), LAMBDA rest :
                          IF rest.ok
                          THEN (IF pat[k].k = "num" THEN taken(run) ELSE rest)
                          \* else as few characters given back as let it match
                          ELSE LET back == FirstIn(1, run - low,
                                               [d \in 1..(run - low) |-> after(run - d).ok])
                               IN  IF back > run - low THEN NoMatch
                                   ELSE taken(run - back)))

\* re.search(pattern, text, re.IGNORECASE): the leftmost match
ReSearch(text, pat) ==
    LET start == FirstIn(1, Len(text), [i \in 1..Len(text) |-> MatchFrom(text, i, pat, 1).ok])
    IN  IF start > Len(text) THEN NoMatch ELSE MatchFrom(text, start, pat, 1)

\* the common tail of every price pattern:  [^:]*:\s*Rp\s*([\d.]+)
PriceTail ==
    NotColonStar \o Lit(T(<<":">>)) \o WsStar \o Lit(T(<<"R","p">>)) \o WsStar \o NumGroup

MinPatterns == <<
    Lit(T(<<"M","i","n">>)) \o WsStar \o Lit(T(<<"P","r","i","c","e">>)) \o PriceTail,
    Lit(T(<<"M","i","n","i","m","u","m">>)) \o PriceTail,
    Lit(T(<<"H","a","r","g","a">>)) \o WsStar \o Lit(T(<<"M","i","n","i","m","u","m">>))
        \o PriceTail >>

MaxPatterns == <<
    Lit(T(<<"M","a","x">>)) \o WsStar \o Lit(T(<<"P","r","i","c","e">>)) \o PriceTail,
    Lit(T(<<"M","a","x","i","m","u","m">>)) \o PriceTail,
    Lit(T(<<"H","a","r","g","a">>)) \o WsStar \o Lit(T(<<"M","a","x","i","m","u","m">>))
        \o PriceTail >>

RecommendedPatterns == <<
    Lit(T(<<"R","e","c","o","m","m","e","n","d","e","d">>)) \o PriceTail,
    Lit(T(<<"D","i","s","a","r","a","n","k","a","n">>)) \o PriceTail,
    Lit(T(<<"H","a","r","g","a">>)) \o WsStar
        \o Lit(T(<<"D","i","s","a","r","a","n","k","a","n">>)) \o PriceTail >>

(***************************************************************************)
(* _parse_crew_result: prices                                              *)
(***************************************************************************)

DefaultMinPrice == 50000

DefaultMaxPrice == 500000

DefaultRecommendedPrice == 150000

\* prices at or below this are rejected
PriceSanityBound == 1000

\* the blanks that int(str) and the validator's number parsing drop around a
\* number: the Unicode White_Space characters, which leave out the four
\* separators U+001C..U+001F that str.strip() also drops
TrimChars == Whitespace \ {28, 29, 30, 31}

TrimStr(s) ==
    LET first == FirstIn(1, Len(s), [j \in 1..Len(s) |-> s[j] \notin TrimChars])
        last  == IF \E i \in 1..Len(s) : s[i] \notin TrimChars
                 THEN CHOOSE i \in 1..Len(s) :
                          s[i] \notin TrimChars /\ \A j \in (i + 1)..Len(s) : s[j] \in TrimChars
                 ELSE 0
    IN  SubSeq(s, first, last)

\* int(s) raises ValueError for a str of more digits than this, whatever
\* number they spell (sys.get_int_max_str_digits(), never changed by the
\* program)
IntMaxStrDigits == 4300

\* int(s) on a str: the blanks around the number are dropped, then comes an
\* optional sign, then digits of any script with single underscores between
\* them, at most IntMaxStrDigits digits; anything else, int("") too, raises
\* ValueError
IntBody(s) ==
    LET t == TrimStr(s)
    IN  IF t # <<>> /\ t[1] \in Chs({"+", "-"}) THEN Tail(t) ELSE t

IntParses(s) ==
    LET b == IntBody(s)
    IN  /\ b # <<>>
        /\ b[1] \in Digits
        /\ b[Len(b)] \in Digits
        /\ \A i \in 1..Len(b) : b[i] \in Digits \/ (b[i] = Ch("_") /\ b[i + 1] # Ch("_"))
        /\ Len(Remove(b, T(<<"_">>))) <= IntMaxStrDigits

\* the number the first n digits of s spell
RECURSIVE DigitsUpTo(_, _)
DigitsUpTo(s, n) == IF n = 0 THEN 0 ELSE 10 * DigitsUpTo(s, n - 1) + DigitValue(s[n])

\* zeros in front add nothing
DigitsValue(s) ==
    Value(SubSeq(s, FirstIn(1, Len(s), [j \in 1..Len(s) |-> DigitValue(s[j]) # 0]), Len(s)),
          LAMBDA ds : DigitsUpTo(ds, Len(ds)))

IntOf(s) ==
    (IF TrimStr(s) # <<>> /\ TrimStr(s)[1] = Ch("-") THEN 0 - 1 ELSE 1)
        * DigitsValue(Remove(IntBody(s), T(<<"_">>)))

\* match.group(1).replace('.', '')
PriceDigits(m) == Remove(m.cap, T(<<".">>))

\* the loop over one role's patterns: a pattern decides (break) only when it
\* matches, its number parses and the number exceeds the sanity bound
RECURSIVE RolePriceFrom(_, _, _, _)
RolePriceFrom(text, pats, i, default) ==
    IF i > Len(pats) THEN default
    ELSE LET m == ReSearch(text, pats[i])
         IN  IF m.ok /\ IntParses(PriceDigits(m)) /\ IntOf(PriceDigits(m)) > PriceSanityBound
             THEN IntOf(PriceDigits(m))
             ELSE RolePriceFrom(text, pats, i + 1, default)

RolePrice(text, pats, default) == RolePriceFrom(text, pats, 1, default)

\* the three prices as extracted or defaulted, before they are put in order
RawPrices(text) ==
    [min |-> RolePrice(text, MinPatterns, DefaultMinPrice),
     max |-> RolePrice(text, MaxPatterns, DefaultMaxPrice),
     rec |-> RolePrice(text, RecommendedPatterns, DefaultRecommendedPrice)]

\* variant: the prices are left as extracted, min above max is not swapped
MutNoSwap(p) == p

\* if min_price > max_price: swap
SwapMinMax(p) ==
    IF p.min > p.max THEN [p EXCEPT !.min = p.max, !.max = p.min] ELSE p

\* if recommended is outside [min, max]: the midpoint
ClampRecommended(p) ==
    IF p.rec < p.min \/ p.rec > p.max
    THEN [p EXCEPT !.rec = (p.min + p.max) \div 2] ELSE p

OrderedPrices(text) == ClampRecommended(SwapMinMax(RawPrices(text)))

DefaultReasoning ==
    T(<<"B","e","r","d","a","s","a","r","k","a","n"," ","a","n","a","l","i","s","i","s"," ",
      "m","a","r","k","e","t">>)

RECURSIVE ExtractReasoningFrom(_, _)
ExtractReasoningFrom(lines, i) ==
    IF i > Len(lines) THEN DefaultReasoning
    ELSE IF (Contains(Lower(lines[i]), T(<<"r","e","a","s","o","n","i","n","g">>)) \/ Contains(Lower(lines[i]), T(<<"a","l","a","s","a","n">>)))
            /\ Contains(lines[i], T(<<":">>))
         THEN Strip(AfterColon(lines[i]))
    ELSE ExtractReasoningFrom(lines, i + 1)

ExtractReasoning(lines) == ExtractReasoningFrom(lines, 1)

(***************************************************************************)
(* _parse_crew_result: hashtags and key features                           *)
(***************************************************************************)

DefaultHashtags == <<
    T(<<"#","p","r","o","d","u","k","b","e","r","k","u","a","l","i","t","a","s">>),
    T(<<"#","m","u","r","a","h">>),
    T(<<"#","r","e","c","o","m","m","e","n","d","e","d">>)
>>

DefaultFeatures == <<
    T(<<"K","u","a","l","i","t","a","s"," ","t","e","r","j","a","m","i","n">>),
    T(<<"H","a","r","g","a"," ","t","e","r","j","a","n","g","k","a","u">>),
    T(<<"S","i","a","p"," ","k","i","r","i","m">>)
>>

\* number of consecutive \w characters from position pos
WordRun(line, pos) ==
    FirstIn(pos, Len(line), [j \in pos..Len(line) |-> ~IsWordChar(line[j])]) - pos

\* re.findall(r'#\w+', line): the matches from position i on, left to right
RECURSIVE FindTagsFrom(_, _)
FindTagsFrom(line, i) ==
    LET at == FirstIn(i, Len(line),
                      [j \in i..Len(line) |-> line[j] = Ch("#") /\ WordRun(line, j + 1) > 0])
    IN  IF at > Len(line) THEN <<>>
        ELSE <<SubSeq(line, at, at + WordRun(line, at + 1))>>
                 \o FindTagsFrom(line, at + WordRun(line, at + 1) + 1)

RECURSIVE CollectedHashtagsFrom(_, _)
CollectedHashtagsFrom(lines, i) ==
    IF i > Len(lines) THEN <<>>
    ELSE FindTagsFrom(lines[i], 1) \o CollectedHashtagsFrom(lines, i + 1)

CollectedHashtags(lines) == CollectedHashtagsFrom(lines, 1)

ExtractHashtags(lines) ==
    IF CollectedHashtags(lines) = <<>> THEN DefaultHashtags ELSE CollectedHashtags(lines)

\* the bullets a feature line may start with: - * and the bullet U+2022, check
\* mark U+2713, sparkles U+2728, high voltage U+26A1, direct hit U+1F3AF,
\* wrench U+1F527 and flexed biceps U+1F4AA
BulletGlyphs == {Ch("-"), Ch("*"), 8226, 10003, 10024, 9889, 127919, 128295, 128170}

\* a line that opens the features section
IsFeatureMarker(line) ==
    Contains(Upper(line), kwFITUR) \/ Contains(Upper(line), kwFEATURE)

\* a line that ends the features section
IsFeatureEnd(line) ==
    Contains(Upper(line), kwHASHTAG) \/ StartsWith(Strip(line), T(<<"#">>))

\* re.sub(r'^[bullets]\s*', '', s) on a stripped line that starts with a bullet
StripBullet(s) == SubSeq(s, FirstNonWs(s, 2), Len(s))

\* what a line inside the section contributes
FeatureOf(line) ==
    LET s == Strip(line)
    IN  IF s # <<>> /\ s[1] \in BulletGlyphs
        THEN LET f == Strip(CleanMarkdown(StripBullet(s)))
             IN  IF Len(f) > 3 THEN <<f>> ELSE <<>>
        ELSE <<>>

RECURSIVE FeatureLoop(_, _, _, _)
FeatureLoop(lines, i, inSec, acc) ==
    IF i > Len(lines) THEN acc
    ELSE IF IsFeatureMarker(lines[i]) THEN FeatureLoop(lines, i + 1, TRUE, acc)
    ELSE IF inSec /\ IsFeatureEnd(lines[i]) THEN acc
    ELSE IF inSec THEN FeatureLoop(lines, i + 1, TRUE, acc \o FeatureOf(lines[i]))
    ELSE FeatureLoop(lines, i + 1, FALSE, acc)

CollectedFeatures(lines) == FeatureLoop(lines, 1, FALSE, <<>>)

\* variant: no default features, the list is returned empty
MutNoDefaultFeatures(lines) == CollectedFeatures(lines)

ExtractFeatures(lines) ==
    IF CollectedFeatures(lines) = <<>> THEN DefaultFeatures ELSE CollectedFeatures(lines)

(***************************************************************************)
(* _parse_crew_result: the returned ProductAnalysisResponse                *)
(***************************************************************************)

MaxTitleLen == 200

MaxDescriptionLen == 1000

MaxHashtags == 10

MaxFeatures == 5

\* confidences are floats in the code; here in hundredths
PriceConfidencePct == 80

OverallConfidencePct == 85

\* pydantic: Field(ge=0, le=1) on both confidences
ConfidenceValid(pct) == 0 <= pct /\ pct <= 100

\* variant: the title is returned uncut
MutKeepTitle(t) == t

TruncateTitle(t) == Prefix(t, MaxTitleLen)

\* description.strip()[:1000]
FinalDescription(d) == Prefix(Strip(d), MaxDescriptionLen)

TruncateHashtags(hs) == Prefix(hs, MaxHashtags)

TruncateFeatures(fs) == Prefix(fs, MaxFeatures)

\* the call raises only if pydantic rejects the constructed models
ParseRaises == ~ConfidenceValid(PriceConfidencePct) \/ ~ConfidenceValid(OverallConfidencePct)

ParseCrewResult(result, original_user_input) ==
    LET lines  == Split(result, Ch("\n"))
        prices == OrderedPrices(result)
    IN  [raised              |-> ParseRaises,
         category            |-> ExtractCategory(result),
         title               |-> TruncateTitle(ExtractTitle(lines)),
         description         |-> FinalDescription(ExtractDescription(lines, original_user_input)),
         original_user_input |-> original_user_input,
         price_suggestion    |-> [min_price         |-> prices.min,
                                  max_price         |-> prices.max,
                                  recommended_price |-> prices.rec,
                                  confidence        |-> PriceConfidencePct,
                                  reasoning         |-> ExtractReasoning(lines)],
         hashtags            |-> TruncateHashtags(ExtractHashtags(lines)),
         key_features        |-> TruncateFeatures(ExtractFeatures(lines)),
         confidence_score    |-> OverallConfidencePct]

(***************************************************************************)
(* Inputs of the extractor: raw texts are up to MaxBlocks fragments joined *)
(* by newlines.  The fragments exercise every branch of the extractor.     *)
(***************************************************************************)

FragTitleDesc ==
    T(<<"J","U","D","U","L",":"," ","S","e","p","a","t","u"," ","L","a","r","i"," ","P","r",
      "i","a","\n","D","E","S","K","R","I","P","S","I",":"," ","N","y","a","m","a","n"," ",
      "d","a","n"," ","r","i","n","g","a","n">>)

FragFeatTags ==
    T(<<"F","I","T","U","R",":","\n","-"," ","R","i","n","g","a","n","\n","-"," ","B","r",
      "e","a","t","h","a","b","l","e","\n","H","A","S","H","T","A","G",":"," ","#","l","a",
      "r","i"," ","#","o","l","a","h","r","a","g","a">>)

FragShortTitle ==
    T(<<"T","i","t","l","e",":"," ","*","*","a","b","c","*","*">>)

FragDescBody ==
    T(<<"D","e","s","k","r","i","p","s","i",":"," ","[","i","s","i","]","\n","*","K","u","a",
      "t","*"," ","d","a","n"," ","a","w","e","t","\n","#"," ","h","e","a","d","e","r">>)

FragFeatures ==
    T(<<"F","I","T","U","R"," ","U","T","A","M","A",":","\n","-"," ","A","w","e","t","\n",
      "*"," ","*","*","M","u","r","a","h","*","*","\n","-"," ","a","b","\n","-"," ","K",
      "e","r","e","n","\n","-"," ","K","u","a","t"," ","s","e","k","a","l","i">>)

FragSixTags ==
    T(<<"#","a","1"," ","#","b","2"," ","#","c","3"," ","#","d","4"," ","#","e","5"," ","#",
      "f","6">>)

FragMinAboveMax ==
    T(<<"M","i","n"," ","P","r","i","c","e",":"," ","R","p"," ","7","5",".","0","0","0","\n",
      "M","a","x"," ","P","r","i","c","e",":"," ","R","p"," ","6","0",".","0","0","0">>)

FragRecHigh ==
    T(<<"R","e","c","o","m","m","e","n","d","e","d",":"," ","R","p"," ","2",".","0","0","0",
      ".","0","0","0">>)

FragRecInRange ==
    T(<<"D","i","s","a","r","a","n","k","a","n",":"," ","R","p"," ","1","0","0",".","0","0",
      "0">>)

FragLowThenNext ==
    T(<<"M","i","n"," ","P","r","i","c","e",":"," ","R","p"," ","9","0","0","\n","H","a","r",
      "g","a"," ","M","i","n","i","m","u","m",":"," ","R","p"," ","1",".","0","0","1">>)

FragBadNumber ==
    T(<<"M","a","x"," ","P","r","i","c","e",":"," ","R","p"," ",".",".",".","\n","R","e","a",
      "s","o","n","i","n","g",":"," ","d","a","t","a"," ","p","a","s","a","r">>)

FragCategories ==
    T(<<"K","a","t","e","g","o","r","i",":"," ","S","p","o","r","t","s"," ","&"," ","F","a",
      "s","h","i","o","n">>)

FragEmpty ==
    <<>>

FragManyFeatTags ==
    T(<<"F","E","A","T","U","R","E","S","\n","-"," ","R","i","n","g","a","n","\n","-"," ",
      "B","r","e","a","t","h","a","b","l","e","\n","-"," ","A","w","e","t","\n","-"," ",
      "M","u","r","a","h","\n","-"," ","K","e","r","e","n","\n","-"," ","K","u","a","t",
      " ","s","e","k","a","l","i","\n","#","a"," ","#","b"," ","#","c"," ","#","d"," ","#",
      "e"," ","#","f"," ","#","g"," ","#","h"," ","#","i"," ","#","j"," ","#","k">>)

UserText ==
    T(<<"S","e","p","a","t","u"," ","N","i","k","e">>)

UserBlank ==
    T(<<" "," ">>)

\* a title line whose title is one character longer than the cut
FragLongTitle == T(<<"J","U","D","U","L",":"," ">>) \o Rep(Ch("a"), MaxTitleLen + 1)

\* a user input that is longer than the description cut, with blanks around it
UserLong == T(<<" ">>) \o Rep(Ch("x"), MaxDescriptionLen + 1) \o T(<<" ">>)

\* a line whose only ':' comes before the title keyword
FragColonFirst ==
    T(<<"C","a","t","a","t","a","n",":"," ","J","U","D","U","L"," ","m","e","n","a","r","i","k">>)

\* bullets and blanks outside ASCII: a bullet U+2022, a form feed after a
\* bullet, a trailing vertical tab, a form feed and a no-break space in a price
FragGlyphs ==
    (T(<<"F","I","T","U","R",":","\n">>) \o <<8226>> \o T(<<" ","R","i","n","g","a","n"," ","s","e","k","a","l","i","\n","-","\f","T","a","h","a","n"," ","l","a","m","a">>) \o <<11>> \o T(<<"\n","M","i","n"," ","P","r","i","c","e",":","\f","R","p">>) \o <<160>> \o T(<<"5",".","0","0","0">>))

\* keywords that only upper() spells: a dotless i (U+0131) in 'title' and the
\* ligature fi (U+FB01) in 'fitur'
FragFoldedKeywords ==
    (T(<<"t">>) \o <<305>> \o T(<<"t","l","e",":"," ","S","e","p","a","t","u"," ","B","a",
      "g","u","s","\n">>) \o <<64257>> \o T(<<"t","u","r",":","\n","-"," ","R","i","n","g",
      "a","n"," ","s","e","k","a","l","i">>))

\* a category that only lower() spells: the Kelvin sign (U+212A) for K
FragKelvinCategory ==
    (T(<<"K","a","t","e","g","o","r","i",":"," ","B","O","O">>) \o <<8490>> \o T(<<"S">>))

\* a capital I with dot (U+0130), which lower() turns into two characters
FragDottedCategory ==
    (T(<<"K","a","t","e","g","o","r","i",":"," ","E","L","E","C","T","R","O",
      "N">>) \o <<304>> \o T(<<"C","S">>))

\* price lines the patterns match by case folding (U+0131 for i, U+017F for s)
\* and Arabic-Indic digits
FragUnicodePrices ==
    (T(<<"M">>) \o <<305>> \o T(<<"n"," ","P","r">>) \o <<305>> \o T(<<"c","e",":"," ","R",
      "p"," ">>) \o <<1639, 1637, 1632, 1632, 1632>> \o T(<<"\n","D",
      "i">>) \o <<383>> \o T(<<"a","r","a","n","k","a","n",":"," ","R","p"," ","1","7","0",
      ".","0","0","0">>))

\* an acceptable price behind one zero more than int() reads, and behind as
\* many zeros as it still reads; a second pattern's price follows
LongZeros == Rep(Ch("0"), IntMaxStrDigits - 3)

MostZeros == Rep(Ch("0"), IntMaxStrDigits - 4)

FragLongDigits ==
    (T(<<"M","i","n"," ","P","r","i","c","e",":"," ","R","p"," ">>) \o LongZeros
        \o T(<<"5","0","0","0","\n","M","i","n","i","m","u","m",":"," ","R","p"," ","7",".",
               "0","0","0">>))

FragMostDigits ==
    (T(<<"M","i","n"," ","P","r","i","c","e",":"," ","R","p"," ">>) \o MostZeros
        \o T(<<"5","0","0","0","\n","M","i","n","i","m","u","m",":"," ","R","p"," ","7",".",
               "0","0","0">>))

LongTexts == {FragLongDigits, FragMostDigits}

\* hashtags of letters outside ASCII
FragUnicodeTags ==
    (T(<<"H","A","S","H","T","A","G",":"," ","#","c","a","f">>) \o <<233>> \o T(<<" ","#",
      "p","o","k">>) \o <<233>> \o T(<<"m","o","n"," ","#">>) \o <<26085, 26412>>)

Fragments ==
    {FragTitleDesc, FragFeatTags, FragShortTitle, FragDescBody, FragFeatures,
     FragSixTags, FragMinAboveMax, FragRecHigh, FragRecInRange, FragLowThenNext,
     FragBadNumber, FragCategories, FragEmpty, FragLongTitle, FragManyFeatTags,
     FragColonFirst, FragGlyphs, FragFoldedKeywords, FragKelvinCategory,
     FragDottedCategory, FragUnicodePrices, FragUnicodeTags}

MaxBlocks == 2

RawTexts ==
    {JoinLines(bs) : bs \in UNION {[1..n -> Fragments] : n \in 0..MaxBlocks}} \cup LongTexts

UserInputs == {None, Some(<<>>), Some(UserBlank), Some(UserText), Some(UserLong)}

(***************************************************************************)
(* The extractor as a state machine: inputs are chosen, the call returns.  *)
(***************************************************************************)

NoResult == [raised |-> FALSE]

\* no request is being handled
AnalysisOff ==
    /\ settings = [google_search_enabled |-> FALSE, google_search_api_key |-> "",
                   google_search_engine_id |-> ""]
    /\ svc = [created |-> FALSE, enabled |-> FALSE]
    /\ user_description = None
    /\ apc = "off"
    /\ file_state = "none"
    /\ google_search_context = <<>>
    /\ market_price_context = [found |-> FALSE]
    /\ stage = <<>>
    /\ stage_output = <<>>
    /\ prompt = <<>>
    /\ exc = <<>>
    /\ response = [kind |-> "none"]
    /\ started = <<>>
    /\ produced = <<>>
    /\ parse_calls = 0
    /\ requests = 0
    /\ searches = <<>>

\* no call of search_product_prices is being followed
PricesOff ==
    /\ presults = <<>>
    /\ price_data = [raised |-> FALSE, data |-> [found |-> FALSE]]
    /\ ppc = "off"

\* no batch of publish calls is being followed
PublishOff ==
    /\ mreqs = <<>>
    /\ mcalls = <<>>
    /\ morder = <<>>
    /\ mresponses = [returned |-> FALSE]
    /\ mpc = "off"

\* no pair of concurrent requests is being followed
ConcurrentOff ==
    /\ csettings = [google_search_enabled |-> FALSE, google_search_api_key |-> "",
                    google_search_engine_id |-> ""]
    /\ csvc = [created |-> FALSE, enabled |-> FALSE]
    /\ cdesc = <<>>
    /\ cpc = <<>>
    /\ cgsc = <<>>
    /\ cmkt = <<>>
    /\ cprompt = <<>>
    /\ cresp = <<>>
    /\ cfeed = <<>>
    /\ cmixed = FALSE
    /\ cloop = 0

\* no category prediction is being followed
PredictOff ==
    /\ qreq = [set |-> FALSE]
    /\ qprompt = [set |-> FALSE]
    /\ qcompletion = [kind |-> "none"]
    /\ qresponse = [kind |-> "none"]
    /\ qpc = "off"

\* no publish request is being followed
EnrichOff ==
    /\ ename = <<>>
    /\ econtent = [t |-> "none"]
    /\ epayload = [kind |-> "none"]
    /\ epc = "off"

ListingOff ==
    /\ lprior = [set |-> FALSE]
    /\ llisting = [set |-> FALSE]
    /\ lproduct = "none"
    /\ lcolumns = [set |-> FALSE]
    /\ lsnapshot = [set |-> FALSE]
    /\ lrequest = [set |-> FALSE]
    /\ lresult = [set |-> FALSE]
    /\ lraised = "none"
    /\ lresponse = [kind |-> "none"]
    /\ lsteps = <<>>
    /\ lothers = <<>>
    /\ lpc = "off"

InitExtract ==
    /\ AnalysisOff
    /\ PricesOff
    /\ PublishOff
    /\ ConcurrentOff
    /\ PredictOff
    /\ raw \in RawTexts
    /\ userIn \in UserInputs
    /\ out = NoResult
    /\ xpc = "idle"
    /\ ListingOff
    /\ EnrichOff

\* one call of _parse_crew_result(raw, userIn)
Parse ==
    /\ xpc = "idle"
    /\ out' = ParseCrewResult(raw, userIn)
    /\ xpc' = "done"
    /\ UNCHANGED <<raw, userIn, notExtract>>

SpecExtract == InitExtract /\ [][Parse]_vars

(***************************************************************************)
(* GoogleSearchService                                                     *)
(***************************************************************************)

\* the Settings a process may be started with (core/config.py)
SettingsChoices ==
    {[google_search_enabled |-> TRUE,  google_search_api_key |-> "key",
      google_search_engine_id |-> "cx"],
     [google_search_enabled |-> TRUE,  google_search_api_key |-> "",
      google_search_engine_id |-> "cx"],
     [google_search_enabled |-> FALSE, google_search_api_key |-> "key",
      google_search_engine_id |-> "cx"]}

\* GoogleSearchService.__init__: enabled = flag and api_key and engine_id
NewService(st) ==
    [created |-> TRUE,
     enabled |-> st.google_search_enabled /\ st.google_search_api_key # ""
                     /\ st.google_search_engine_id # ""]

\* get_google_search_service(): create the singleton on first use
GetService(current, st) == IF current.created THEN current ELSE NewService(st)

\* items a search backend may answer with; a JSON null snippet arrives as None
ItemPrice ==
    [title |-> T(<<"T","o","k","o"," ","A">>), link |-> "l1", displayLink |-> "d1",
     snippet |-> Some(T(<<"H","a","r","g","a"," ","R","p"," ","1","0",".","0","0","0">>))]

ItemPlain ==
    [title |-> T(<<"T","o","k","o"," ","B">>), link |-> "l2", displayLink |-> "d2",
     snippet |-> Some(T(<<"R","e","v","i","e","w"," ","b","a","g","u","s">>))]

ItemTwoPrices ==
    [title |-> T(<<"T","o","k","o"," ","C">>), link |-> "l3", displayLink |-> "d3",
     snippet |-> Some(T(<<"P","r","o","m","o"," ","I","D","R"," ","2","5",".","0","0","0"," ",
                        "d","a","n"," ","R","p"," ","1","5",".","0","0","0">>))]

ItemNullSnippet ==
    [title |-> T(<<"T","o","k","o"," ","D">>), link |-> "l4", displayLink |-> "d4",
     snippet |-> None]

ItemLists ==
    {<<>>, <<ItemPlain>>, <<ItemPrice>>, <<ItemPrice, ItemTwoPrices>>, <<ItemNullSnippet>>}

\* what the transport may do with a request: answer (200 or not) or fail
TransportOutcomes ==
    {[kind |-> "response", status |-> 200, items |-> il] : il \in ItemLists}
        \cup {[kind |-> "response", status |-> 403, items |-> <<>>],
              [kind |-> "error", status |-> 0, items |-> <<>>]}

\* variant: no try/except around the request, a transport error propagates
MutSearchPropagates(service, outcome) ==
    IF ~service.enabled
    THEN [results |-> <<>>, raised |-> FALSE, requested |-> FALSE]
    ELSE IF outcome.kind = "error"
    THEN [results |-> <<>>, raised |-> TRUE, requested |-> TRUE]
    ELSE [results |-> outcome.items, raised |-> FALSE, requested |-> TRUE]

\* GoogleSearchService.search: no request when disabled; an exception and a
\* status other than 200 both end in the empty list
Search(service, outcome) ==
    IF ~service.enabled
    THEN [results |-> <<>>, raised |-> FALSE, requested |-> FALSE]
    ELSE IF outcome.kind = "error"
    THEN [results |-> <<>>, raised |-> FALSE, requested |-> TRUE]
    ELSE IF outcome.status = 200
    THEN [results |-> outcome.items, raised |-> FALSE, requested |-> TRUE]
    ELSE [results |-> <<>>, raised |-> FALSE, requested |-> TRUE]

\* search_product_info: the snippets of the results
SearchProductInfo(results) ==
    [descriptions |-> [i \in 1..Len(results) |-> results[i].snippet]]

\* sanity check of a market price: 1000 <= price <= 1_000_000_000
MinMarketPrice == 1000

MaxMarketPrice == 1000000000

PriceChars == Digits \cup Chs({".", ","})

\* how many consecutive characters of text from position pos are in S
RunOf(text, pos, S) ==
    FirstIn(pos, Len(text), [j \in pos..Len(text) |-> text[j] \notin S]) - pos

\* where the group of  <lit>\s*([\d.,]+)  starts when lit occurs at j
CurrencyGroupAt(text, lit, j) == j + Len(lit) + RunOf(text, j + Len(lit), Whitespace)

\* re.findall(r'Rp\s*([\d.,]+)', text) and the same for IDR: the groups of
\* the non-overlapping matches from position i on, left to right
RECURSIVE FindAllCurrency(_, _, _)
FindAllCurrency(text, lit, i) ==
    LET at == FirstIn(i, Len(text),
                      [j \in i..Len(text) |->
                          /\ OccursAt(text, lit, j)
                          /\ RunOf(text, CurrencyGroupAt(text, lit, j), PriceChars) > 0])
    IN  IF at > Len(text) THEN <<>>
        ELSE LET g == CurrencyGroupAt(text, lit, at)
                 n == RunOf(text, g, PriceChars)
             IN  <<SubSeq(text, g, g + n - 1)>> \o FindAllCurrency(text, lit, g + n)

\* [.,] followed by n digits at position j
SepGroup(text, j, n) ==
    /\ j + n <= Len(text)
    /\ text[j] \in Chs({".", ","})
    /\ \A k \in 1..n : text[j + k] \in Digits

\* the position after the greedy (?:[.,]\d{3})* from position j
ThousandsEnd(text, j) ==
    j + 4 * FirstIn(0, Len(text) \div 4,
                    [g \in 0..(Len(text) \div 4) |-> ~SepGroup(text, j + 4 * g, 3)])

\* the position after a match of \d{1,3}(?:[.,]\d{3})*(?:[.,]\d{2})? at a digit
PlainNumberEnd(text, at) ==
    LET d == IF RunOf(text, at, Digits) < 3 THEN RunOf(text, at, Digits) ELSE 3
        t == ThousandsEnd(text, at + d)
    IN  IF SepGroup(text, t, 2) THEN t + 3 ELSE t

\* re.findall of the third pattern from position i on.  At the first digit a
\* match starts.  While more than three digits follow each other, a match is
\* three digits and the next match starts right after it; the match that
\* takes the last digits of the run may go on with groups
RECURSIVE FindAllPlain(_, _)
FindAllPlain(text, i) ==
    Value(FirstIn(i, Len(text), [j \in i..Len(text) |-> text[j] \in Digits]), LAMBDA at :
        IF at > Len(text) THEN <<>>
        ELSE LET threes == (RunOf(text, at, Digits) - 1) \div 3
                 last   == at + 3 * threes
             IN  Value(PlainNumberEnd(text, last), LAMBDA end :
                     [n \in 1..threes |-> SubSeq(text, at + 3 * n - 3, at + 3 * n - 1)]
                         \o <<SubSeq(text, last, end - 1)>>
                         \o FindAllPlain(text, end)))

\* match.replace('.', '').replace(',', '')
MarketDigits(match) == Remove(Remove(match, T(<<".">>)), T(<<",">>))

\* the digits without leading zeros
NoLeadingZeros(ds) ==
    SubSeq(ds, FirstIn(1, Len(ds), [j \in 1..Len(ds) |-> DigitValue(ds[j]) # 0]), Len(ds))

\* int(price_str) parses and the price passes the sanity check (a number of
\* more than ten digits is above the upper limit)
MarketPriceAccepted(match) ==
    /\ IntParses(MarketDigits(match))
    /\ Len(NoLeadingZeros(MarketDigits(match))) <= 9
          \/ /\ Len(NoLeadingZeros(MarketDigits(match))) = 10
             /\ \A j \in 1..10 : DigitValue(NoLeadingZeros(MarketDigits(match))[j])
                                     = (IF j = 1 THEN 1 ELSE 0)
    /\ MinMarketPrice <= IntOf(NoLeadingZeros(MarketDigits(match)))
    /\ IntOf(NoLeadingZeros(MarketDigits(match))) <= MaxMarketPrice

\* the prices of the matches that are accepted, in the order of the matches
MarketPricesOf(matches) ==
    Value(SelectSeq(matches, MarketPriceAccepted), LAMBDA accepted :
        [n \in 1..Len(accepted) |-> IntOf(NoLeadingZeros(MarketDigits(accepted[n])))])

\* the prices one result contributes: the three patterns in turn over
\* snippet + " " + title
AcceptedPrices(result) ==
    LET text == result.snippet.val \o T(<<" ">>) \o result.title
    IN  MarketPricesOf(FindAllCurrency(text, T(<<"R","p">>), 1))
            \o MarketPricesOf(FindAllCurrency(text, T(<<"I","D","R">>), 1))
            \o MarketPricesOf(FindAllPlain(text, 1))

RECURSIVE AllPrices(_)
AllPrices(results) ==
    IF results = <<>> THEN <<>>
    ELSE AcceptedPrices(results[1]) \o AllPrices(Tail(results))

RECURSIVE Sum(_)
Sum(ps) == IF ps = <<>> THEN 0 ELSE ps[1] + Sum(Tail(ps))

\* sum(prices) // len(prices); the sum is taken over quotients and remainders
\* by len(prices), which gives the same integer and stays below 2^31
AvgOf(prices) ==
    LET n == Len(prices)
    IN  Sum([i \in 1..n |-> prices[i] \div n]) + (Sum([i \in 1..n |-> prices[i] % n]) \div n)

NotFound == [found |-> FALSE]

\* variant: the lower-middle element for even counts
MutMedianLower(prices) == prices[(Len(prices) + 1) \div 2]

\* prices[len(prices) // 2] of the sorted list
MedianOf(prices) == prices[(Len(prices) \div 2) + 1]

\* min(len(prices) / 10, 1.0), in tenths
ConfidenceTenths(n) == IF n < 10 THEN n ELSE 10

\* variant: statistics are reported although no price was accepted
MutStatsOfEmpty(prices) ==
    [found        |-> TRUE,
     min_price    |-> IF prices = <<>> THEN 0 ELSE prices[1],
     max_price    |-> IF prices = <<>> THEN 0 ELSE prices[Len(prices)],
     avg_price    |-> 0,
     median_price |-> 0,
     price_count  |-> Len(prices),
     confidence   |-> ConfidenceTenths(Len(prices))]

\* the statistics of the sorted accepted prices, or the not-found record
PriceStats(prices) ==
    IF prices = <<>> THEN NotFound
    ELSE [found        |-> TRUE,
          min_price    |-> prices[1],
          max_price    |-> prices[Len(prices)],
          avg_price    |-> AvgOf(prices),
          median_price |-> MedianOf(prices),
          price_count  |-> Len(prices),
          confidence   |-> ConfidenceTenths(Len(prices))]

\* search_product_prices: snippet + " " + title raises TypeError for a None
\* snippet; otherwise the statistics of the accepted prices
SearchProductPrices(results) ==
    IF \E i \in 1..Len(results) : results[i].snippet.isNone
    THEN [raised |-> TRUE, data |-> NotFound]
    ELSE [raised |-> FALSE,
          data   |-> PriceStats(SortSeq(AllPrices(results), LAMBDA a, b : a < b))]

(***************************************************************************)
(* analyze_product: the two grounding contexts                             *)
(***************************************************************************)

\* how many snippets the vision prompt embeds at most
MaxEmbeddedSnippets == 3

\* lines 209-228: "" unless descriptions were found and could be joined;
\* "\n".join raises TypeError on a None snippet, and the except clause passes
GoogleSearchContext(product_info) ==
    LET first == Prefix(product_info.descriptions, MaxEmbeddedSnippets)
    IN  IF product_info.descriptions = <<>> THEN <<>>
        ELSE IF \E i \in 1..Len(first) : first[i].isNone THEN <<>>
        ELSE [i \in 1..Len(first) |-> first[i].val]

\* did the grounding text for the vision prompt raise inside its try block
InfoGroundingRaised(product_info) ==
    \E i \in 1..Len(Prefix(product_info.descriptions, MaxEmbeddedSnippets)) :
        product_info.descriptions[i].isNone

EmptyMarket == [found |-> FALSE]

\* lines 268-288: "" unless price data was found; exceptions pass
MarketPriceContext(price_result) ==
    IF price_result.raised THEN EmptyMarket
    ELSE IF price_result.data.found THEN price_result.data
    ELSE EmptyMarket

(***************************************************************************)
(* The four-task crew of analyze_product                                   *)
(***************************************************************************)

Stages == {"vision", "category", "pricing", "copywriting"}

\* variant: the crew lists the category task before the vision task
MutCrewTasks == <<"category", "vision", "pricing", "copywriting">>

\* Crew(tasks=[vision_task, category_task, pricing_task, copywriting_task]):
\* kickoff runs the tasks one after the other in this order
CrewTasks == <<"vision", "category", "pricing", "copywriting">>

\* the context=[...] each Task declares
TaskContext ==
    [vision      |-> <<>>,
     category    |-> <<"vision">>,
     pricing     |-> <<"vision", "category">>,
     copywriting |-> <<"vision", "category", "pricing">>]

\* texts the language-model backend may answer a task with
StageTexts ==
    [vision      |-> {T(<<"v","1">>), T(<<"v","2">>)},
     category    |-> {T(<<"f","a","s","h","i","o","n">>), T(<<"t","o","y","s">>)},
     pricing     |-> {FragMinAboveMax, FragRecInRange},
     copywriting |-> {JoinLines(<<FragTitleDesc, FragFeatTags>>), FragRecHigh, FragEmpty}]

\* exceptions the backend call of a task may raise
StageErrors ==
    {[type |-> "ValueError",   text |-> T(<<"b","a","d"," ","r","e","s","p","o","n","s","e">>)],
     [type |-> "TimeoutError", text |-> T(<<"t","i","m","e","d"," ","o","u","t">>)]}

NoText == [set |-> FALSE, text |-> <<>>]

\* what crew.kickoff() returns when every task has answered, as str() reads
\* it: the text of the last task of the list
KickoffResult(outputs) == outputs[CrewTasks[Len(CrewTasks)]].text

NoExc == [type |-> "none", text |-> <<>>, source |-> "none", stage |-> "none"]

\* the exception a failed grounding step raises inside its try block
GroundingFailure(raised) ==
    IF raised
    THEN [type |-> "TypeError", text |-> T(<<"N","o","n","e">>), source |-> "grounding",
          stage |-> "none"]
    ELSE NoExc

\* variant: the except clause re-raises
MutReraise(e) == e

\* "except Exception as e: pass": nothing leaves the try block
ExceptPass(e) == NoExc

(***************************************************************************)
(* The route POST /products/analyze                                        *)
(***************************************************************************)

HttpOk == 200

HttpBadRequest == 400

HttpServerError == 500

AnalysisFailedPrefix ==
    T(<<"A","I"," ","a","n","a","l","y","s","i","s"," ","f","a","i","l","e","d",":"," ">>)

SaveFailedPrefix ==
    T(<<"F","a","i","l","e","d"," ","t","o"," ","s","a","v","e"," ","f","i","l","e",":"," ">>)

InvalidExtensionDetail ==
    T(<<"I","n","v","a","l","i","d"," ","f","i","l","e"," ","e","x","t","e","n","s","i","o","n">>)

\* what json.loads raises on a str: JSONDecodeError on a text that is not
\* JSON, ValueError on an integer of more digits than int() converts (4300),
\* RecursionError on arrays or objects nested deeper than the interpreter's
\* recursion limit
JsonErrors == {"JSONDecodeError", "ValueError", "RecursionError"}

\* str(e) of the two that are not JSONDecodeError, for an integer of 5000
\* digits and for nested arrays
JsonErrorText(type) ==
    IF type = "ValueError"
    THEN T(<<"E","x","c","e","e","d","s"," ","t","h","e"," ","l","i","m","i","t"," ","(",
           "4","3","0","0"," ","d","i","g","i","t","s",")"," ","f","o","r"," ","i","n","t",
           "e","g","e","r"," ","s","t","r","i","n","g"," ","c","o","n","v","e","r","s","i",
           "o","n",":"," ","v","a","l","u","e"," ","h","a","s"," ","5","0","0","0"," ","d",
           "i","g","i","t","s",";"," ","u","s","e"," ","s","y","s",".","s","e","t","_","i",
           "n","t","_","m","a","x","_","s","t","r","_","d","i","g","i","t","s","(",")"," ",
           "t","o"," ","i","n","c","r","e","a","s","e"," ","t","h","e"," ","l","i","m","i",
           "t">>)
    ELSE T(<<"m","a","x","i","m","u","m"," ","r","e","c","u","r","s","i","o","n"," ","d",
           "e","p","t","h"," ","e","x","c","e","e","d","e","d"," ","w","h","i","l","e"," ",
           "d","e","c","o","d","i","n","g"," ","a"," ","J","S","O","N"," ","a","r","r","a",
           "y"," ","f","r","o","m"," ","a"," ","u","n","i","c","o","d","e"," ","s","t","r",
           "i","n","g">>)

InvalidSpecsDetail ==
    T(<<"I","n","v","a","l","i","d"," ","J","S","O","N"," ","f","o","r","m","a","t"," ",
      "f","o","r"," ","s","p","e","c","i","f","i","c","a","t","i","o","n","s">>)

\* allowed_extensions of validate_image_file, and the list of the route
AllowedExtensions == <<T(<<".","j","p","g">>), T(<<".","j","p","e","g">>), T(<<".","p","n","g">>), T(<<".","w","e","b","p">>)>>

FilenameRequiredDetail ==
    T(<<"F","i","l","e","n","a","m","e"," ","i","s"," ","r","e","q","u","i","r","e","d">>)

InvalidFilenameDetail ==
    T(<<"I","n","v","a","l","i","d"," ","f","i","l","e","n","a","m","e">>)

\* f"File type not allowed. Allowed extensions: {', '.join(allowed_extensions)}"
FileTypeDetail ==
    T(<<"F","i","l","e"," ","t","y","p","e"," ","n","o","t"," ","a","l","l","o","w","e","d",
      "."," ","A","l","l","o","w","e","d"," ","e","x","t","e","n","s","i","o","n","s",":",
      " ",".","j","p","g",","," ",".","j","p","e","g",","," ",".","p","n","g",","," ",".",
      "w","e","b","p">>)

InvalidImagePrefix ==
    T(<<"I","n","v","a","l","i","d"," ","i","m","a","g","e"," ","f","i","l","e",":"," ">>)

\* str() of the HTTPException raised inside the try block for more than 10MB
FileTooLargeText ==
    T(<<"4","0","0",":"," ","F","i","l","e"," ","t","o","o"," ","l","a","r","g","e","."," ",
      "M","a","x"," ","1","0","M","B">>)

InvalidPathDetail ==
    T(<<"I","n","v","a","l","i","d"," ","f","i","l","e"," ","p","a","t","h">>)

\* index of the last "." of s, 0 if none
LastDot(s) ==
    IF \E i \in 1..Len(s) : s[i] = Ch(".")
    THEN CHOOSE i \in 1..Len(s) : s[i] = Ch(".") /\ \A j \in (i + 1)..Len(s) : s[j] # Ch(".")
    ELSE 0

\* filename.lower().split('.')[-1] if '.' in filename else ""
\* (the whole name is lowered, so a letter of the extension is lowered as
\* one that follows the letters before the dot)
ExtensionOf(filename) ==
    IF LastDot(filename) = 0 THEN <<>>
    ELSE LET lowered == Lower(filename)
         IN  SubSeq(lowered, LastDot(lowered) + 1, Len(lowered))

\* os.path.splitext(filename)[1].lower() for a name without a separator: the
\* text from the last dot on, "" when nothing but dots precedes that dot
SplitExt(filename) ==
    LET d == LastDot(filename)
    IN  IF d = 0 \/ \A i \in 1..(d - 1) : filename[i] = Ch(".") THEN <<>>
        ELSE Lower(SubSeq(filename, d, Len(filename)))

IsAllowedExtension(ext) == \E i \in 1..Len(AllowedExtensions) : AllowedExtensions[i] = ext

\* validate_image_file: None when the upload is accepted, else the detail of
\* the HTTPException (status 400)
ValidateImageFile(file) ==
    LET filename == IF file.filename.isNone THEN <<>> ELSE file.filename.val
    IN  IF filename = <<>> THEN Some(FilenameRequiredDetail)
        ELSE IF \/ Contains(filename, T(<<".", ".">>))
                \/ Contains(filename, T(<<"/">>))
                \/ Contains(filename, T(<<"\\">>))
        THEN Some(InvalidFilenameDetail)
        ELSE IF ~IsAllowedExtension(T(<<".">>) \o ExtensionOf(filename)) THEN Some(FileTypeDetail)
        ELSE IF file.content.kind = "too_large" THEN Some(InvalidImagePrefix \o FileTooLargeText)
        ELSE IF file.content.kind = "raises" THEN Some(InvalidImagePrefix \o file.content.text)
        ELSE None

\* lines 57-75 of the route: None when the upload goes on to be saved, else
\* the detail of the HTTPException (status 400)
UploadRejection(file, paths) ==
    IF ~ValidateImageFile(file).isNone THEN ValidateImageFile(file)
    ELSE IF ~IsAllowedExtension(SplitExt(file.filename.val)) THEN Some(InvalidExtensionDetail)
    ELSE IF ~StartsWith(paths.real_file_path, paths.real_upload_path) THEN Some(InvalidPathDetail)
    ELSE None

\* names a client may give the upload
Filenames ==
    {None, Some(<<>>),
     Some(T(<<".",".","/","a",".","j","p","g">>)), Some(T(<<"a","/","b",".","j","p","g">>)), Some(T(<<"a","\\","b",".","p","n","g">>)),
     Some(T(<<"a",".","t","x","t">>)), Some(T(<<"f","o","t","o">>)), Some(T(<<".","j","p","g">>)),
     Some(T(<<"a",".","j","p","g">>)), Some(T(<<"B",".","P","N","G">>)), Some(T(<<"c",".","t","a","r",".","w","e","b","p">>))}

\* the bytes of the upload: an image, more than 10MB, or bytes that reading
\* or PIL raises on
UploadContents ==
    {[kind |-> "image", text |-> <<>>],
     [kind |-> "too_large", text |-> <<>>],
     [kind |-> "raises", text |-> T(<<"c","a","n","n","o","t"," ","i","d","e","n","t","i","f","y"," ","i","m","a","g","e"," ","f","i","l","e">>)]}

\* what os.path.realpath gives for the upload directory and the new file: the
\* file lies in the directory, unless the directory is a link that another
\* process points elsewhere between the two calls
RealPaths ==
    {[real_upload_path |-> T(<<"/","u","p">>), real_file_path |-> T(<<"/","u","p","/","f","1",".","j","p","g">>)],
     [real_upload_path |-> T(<<"/","u","p">>), real_file_path |-> T(<<"/","m","n","t","/","f","1",".","j","p","g">>)]}

Uploads == [filename : Filenames, content : UploadContents]

NoResponse == [kind |-> "none"]

HttpError(code, detail) == [kind |-> "error", status_code |-> code, detail |-> detail]

\* an exception no except clause of the route catches: the route raises it
Unhandled(type, text) == [kind |-> "raised", type |-> type, text |-> text]

\* the two except clauses around the analysis
ErrorResponse(e) ==
    IF e.type = "ValueError"
    THEN HttpError(HttpBadRequest, e.text)
    ELSE HttpError(HttpServerError, AnalysisFailedPrefix \o e.text)

UserDescriptions == {None, Some(<<>>), Some(UserBlank), Some(UserText)}

ExtractorOff ==
    /\ raw = <<>>
    /\ userIn = None
    /\ out = NoResult
    /\ xpc = "off"

InitAnalyze ==
    /\ settings \in SettingsChoices
    /\ svc = [created |-> FALSE, enabled |-> FALSE]
    /\ user_description \in UserDescriptions
    /\ apc = "validate"
    /\ file_state = "none"
    /\ google_search_context = <<>>
    /\ market_price_context = EmptyMarket
    /\ stage = [s \in Stages |-> "pending"]
    /\ stage_output = [s \in Stages |-> NoText]
    /\ prompt = [s \in Stages |-> <<>>]
    /\ exc = NoExc
    /\ response = NoResponse
    /\ started = <<>>
    /\ produced = [s \in Stages |-> 0]
    /\ parse_calls = 0
    /\ requests = 0
    /\ searches = <<>>
    /\ ExtractorOff
    /\ PricesOff
    /\ PublishOff
    /\ ConcurrentOff
    /\ PredictOff
    /\ ListingOff
    /\ EnrichOff

\* lines 57-75: validate_image_file, then the extension and path checks
RouteValidate ==
    /\ apc = "validate"
    /\ \E file \in Uploads, paths \in RealPaths :
          LET detail == UploadRejection(file, paths)
          IN  IF detail.isNone THEN apc' = "save" /\ UNCHANGED response
              ELSE apc' = "done" /\ response' = HttpError(HttpBadRequest, detail.val)
    /\ UNCHANGED <<settings, svc, user_description, file_state, google_search_context,
                   market_price_context, stage, stage_output, prompt, exc, started,
                   produced, parse_calls, requests, searches, notAnalyze>>

\* exceptions that opening, reading or writing may raise
SaveErrors == {T(<<"d","i","s","k"," ","f","u","l","l">>)}

\* line 78: open(file_path, "wb") creates the file, empty, or raises
RouteSave ==
    /\ apc = "save"
    /\ \/ apc' = "write" /\ file_state' = "created" /\ UNCHANGED response
       \/ \E e \in SaveErrors :
             /\ apc' = "done"
             /\ response' = HttpError(HttpServerError, SaveFailedPrefix \o e)
             /\ UNCHANGED file_state
    /\ UNCHANGED <<settings, svc, user_description, google_search_context,
                   market_price_context, stage, stage_output, prompt, exc, started,
                   produced, parse_calls, requests, searches, notAnalyze>>

\* lines 79-84: after the await of image.read() the content is written; when
\* reading or writing raises, the file that open created stays where it is
RouteWrite ==
    /\ apc = "write"
    /\ \/ apc' = "specs" /\ file_state' = "saved" /\ UNCHANGED response
       \/ \E e \in SaveErrors :
             /\ apc' = "done"
             /\ response' = HttpError(HttpServerError, SaveFailedPrefix \o e)
             /\ UNCHANGED file_state
    /\ UNCHANGED <<settings, svc, user_description, google_search_context,
                   market_price_context, stage, stage_output, prompt, exc, started,
                   produced, parse_calls, requests, searches, notAnalyze>>

\* lines 88-96: user_specifications is absent or empty, or json.loads is
\* called on it.  Of what json.loads raises the route catches JSONDecodeError
\* only; the call is outside the try of line 99, so a ValueError or a
\* RecursionError leaves the route as it is, the saved file in place
RouteSpecs ==
    /\ apc = "specs"
    /\ \E given \in {"absent", "value"} \cup JsonErrors :
          IF given \in {"absent", "value"}
          THEN apc' = "info_search" /\ UNCHANGED response
          ELSE IF given = "JSONDecodeError"
          THEN apc' = "done" /\ response' = HttpError(HttpBadRequest, InvalidSpecsDetail)
          ELSE apc' = "done" /\ response' = Unhandled(given, JsonErrorText(given))
    /\ UNCHANGED <<settings, svc, user_description, file_state, google_search_context,
                   market_price_context, stage, stage_output, prompt, exc, started,
                   produced, parse_calls, requests, searches, notAnalyze>>

\* the keyword arguments _initialize_llm passes to LLM(...), the client of
\* every stage's backend call
LlmOptions == {"model", "base_url", "api_key"}

\* the keyword arguments search passes to aiohttp.ClientSession(...) and to
\* session.get(...)
SessionOptions == {}

RequestOptions == {"params"}

\* what is remembered of one call of GoogleSearchService.search
SearchCall(caller, service, outcome, r, grounding_raised) ==
    [caller    |-> caller,
     enabled   |-> service.enabled,
     requested |-> r.requested,
     transport |-> IF r.requested THEN outcome.kind ELSE "none",
     status    |-> IF r.requested THEN outcome.status ELSE 0,
     n_results |-> Len(r.results),
     raised    |-> r.raised,
     grounding_raised |-> grounding_raised]

\* variant: the consistency check runs first and rejects the request
MutConsistencyRejects ==
    /\ apc = "info_search"
    /\ exc' = [type |-> "ValueError", text |-> T(<<"t","i","d","a","k"," ","s","e","s","u","a","i">>),
               source |-> "consistency", stage |-> "none"]
    /\ apc' = "except"
    /\ UNCHANGED <<settings, svc, user_description, file_state, google_search_context,
                   market_price_context, stage, stage_output, prompt, response, started,
                   produced, parse_calls, requests, searches, notAnalyze>>

\* an outcome for a search that sends no request: the transport is not asked
NoTransport == [kind |-> "none", status |-> 0, items |-> <<>>]

\* lines 208-213: with a description, the singleton is fetched and
\* search_product_info is awaited.  An enabled service sends its request and
\* the coroutine is suspended until the transport has answered; a disabled
\* one returns [] at once and lines 215-228 follow without a suspension
ProductInfoSearch ==
    /\ apc = "info_search"
    /\ IF Truthy(user_description)
       THEN LET service == GetService(svc, settings)
            IN  /\ svc' = service
                /\ IF service.enabled
                   THEN /\ requests' = requests + 1
                        /\ apc' = "info_await"
                        /\ UNCHANGED searches
                   ELSE /\ searches' = Append(searches,
                               SearchCall("info", service, NoTransport,
                                          Search(service, NoTransport), FALSE))
                        /\ apc' = "price_search"
                        /\ UNCHANGED requests
       ELSE /\ apc' = "price_search"
            /\ UNCHANGED <<svc, requests, searches>>
    /\ UNCHANGED <<settings, user_description, file_state, google_search_context,
                   market_price_context, stage, stage_output, prompt, exc, response,
                   started, produced, parse_calls, notAnalyze>>

\* lines 213-228 after the await: the transport has answered or failed, and
\* google_search_context is assigned
ProductInfoAnswer ==
    /\ apc = "info_await"
    /\ \E o \in TransportOutcomes :
          LET r       == Search(svc, o)
              info    == SearchProductInfo(r.results)
              failed  == r.raised \/ InfoGroundingRaised(info)
              e       == ExceptPass(GroundingFailure(failed))
          IN  /\ searches' = Append(searches, SearchCall("info", svc, o, r, failed))
              /\ google_search_context' =
                     IF failed THEN <<>> ELSE GoogleSearchContext(info)
              /\ exc' = e
              /\ apc' = IF e = NoExc THEN "price_search" ELSE "except"
    /\ UNCHANGED <<settings, svc, user_description, file_state, market_price_context,
                   stage, stage_output, prompt, response, started, produced, parse_calls,
                   requests, notAnalyze>>

\* lines 267-273: the singleton is fetched and search_product_prices is
\* awaited; as above, only an enabled service suspends the coroutine
PriceSearch ==
    /\ apc = "price_search"
    /\ LET service == GetService(svc, settings)
       IN  /\ svc' = service
           /\ IF service.enabled
              THEN /\ requests' = requests + 1
                   /\ apc' = "price_await"
                   /\ UNCHANGED searches
              ELSE /\ searches' = Append(searches,
                          SearchCall("prices", service, NoTransport,
                                     Search(service, NoTransport), FALSE))
                   /\ apc' = "chain"
                   /\ UNCHANGED requests
    /\ UNCHANGED <<settings, user_description, file_state, google_search_context,
                   market_price_context, stage, stage_output, prompt, exc, response,
                   started, produced, parse_calls, notAnalyze>>

\* lines 273-288 after the await: market_price_context is assigned
PriceAnswer ==
    /\ apc = "price_await"
    /\ \E o \in TransportOutcomes :
          LET r       == Search(svc, o)
              pr      == SearchProductPrices(r.results)
              failed  == r.raised \/ pr.raised
              e       == ExceptPass(GroundingFailure(failed))
          IN  /\ searches' = Append(searches, SearchCall("prices", svc, o, r, failed))
              /\ market_price_context' =
                     IF r.raised THEN EmptyMarket ELSE MarketPriceContext(pr)
              /\ exc' = e
              /\ apc' = IF e = NoExc THEN "chain" ELSE "except"
    /\ UNCHANGED <<settings, svc, user_description, file_state, google_search_context,
                   stage, stage_output, prompt, response, started, produced, parse_calls,
                   requests, notAnalyze>>

\* kickoff starts the next task of the list; its prompt embeds the texts of
\* the tasks it names as context
StageStart ==
    /\ apc = "chain"
    /\ \A s \in Stages : stage[s] # "running"
    /\ Len(started) < Len(CrewTasks)
    /\ LET s == CrewTasks[Len(started) + 1]
       IN  /\ stage' = [stage EXCEPT ![s] = "running"]
           /\ started' = Append(started, s)
           /\ prompt' = [prompt EXCEPT ![s] =
                  [i \in 1..Len(TaskContext[s]) |-> stage_output[TaskContext[s][i]]]]
    /\ UNCHANGED <<settings, svc, user_description, apc, file_state,
                   google_search_context, market_price_context, stage_output, exc,
                   response, produced, parse_calls, requests, searches, notAnalyze>>

\* the backend answers the running task
StageFinish ==
    /\ apc = "chain"
    /\ \E s \in Stages :
          /\ stage[s] = "running"
          /\ \E t \in StageTexts[s] :
                stage_output' = [stage_output EXCEPT ![s] = [set |-> TRUE, text |-> t]]
          /\ stage' = [stage EXCEPT ![s] = "done"]
          /\ produced' = [produced EXCEPT ![s] = produced[s] + 1]
    /\ apc' = IF Len(started) = Len(CrewTasks) THEN "return" ELSE "chain"
    /\ UNCHANGED <<settings, svc, user_description, file_state, google_search_context,
                   market_price_context, prompt, exc, response, started, parse_calls,
                   requests, searches, notAnalyze>>

\* variant: the error of a task is swallowed and the crew goes on
MutStageFailSkipped ==
    /\ apc = "chain"
    /\ \E s \in Stages :
          /\ stage[s] = "running"
          /\ stage' = [stage EXCEPT ![s] = "failed"]
    /\ apc' = IF Len(started) = Len(CrewTasks) THEN "return" ELSE "chain"
    /\ UNCHANGED <<settings, svc, user_description, file_state, google_search_context,
                   market_price_context, stage_output, prompt, exc, response, started,
                   produced, parse_calls, requests, searches, notAnalyze>>

\* the backend call of the running task raises: kickoff raises
StageFail ==
    /\ apc = "chain"
    /\ \E s \in Stages :
          /\ stage[s] = "running"
          /\ \E e \in StageErrors :
                exc' = [type |-> e.type, text |-> e.text, source |-> "stage", stage |-> s]
          /\ stage' = [stage EXCEPT ![s] = "failed"]
    /\ apc' = "except"
    /\ UNCHANGED <<settings, svc, user_description, file_state, google_search_context,
                   market_price_context, stage_output, prompt, response, started,
                   produced, parse_calls, requests, searches, notAnalyze>>

\* result = crew.kickoff(); return self._parse_crew_result(result,
\* user_description)
Return ==
    /\ apc = "return"
    /\ LET body == ParseCrewResult(KickoffResult(stage_output), user_description)
       IN  IF body.raised
           THEN /\ exc' = [type |-> "ValueError", text |-> T(<<"v","a","l","i","d","a","t","i","o","n">>),
                           source |-> "extractor", stage |-> "none"]
                /\ apc' = "except"
                /\ UNCHANGED response
           ELSE /\ response' = [kind |-> "ok", status_code |-> HttpOk, body |-> body]
                /\ apc' = "done"
                /\ UNCHANGED exc
    /\ parse_calls' = parse_calls + 1
    /\ UNCHANGED <<settings, svc, user_description, file_state, google_search_context,
                   market_price_context, stage, stage_output, prompt, started, produced,
                   requests, searches, notAnalyze>>

\* the except clauses of the route: the file is removed, an HTTP error answers
RouteExcept ==
    /\ apc = "except"
    /\ response' = ErrorResponse(exc)
    /\ file_state' = "removed"
    /\ apc' = "done"
    /\ UNCHANGED <<settings, svc, user_description, google_search_context,
                   market_price_context, stage, stage_output, prompt, exc, started,
                   produced, parse_calls, requests, searches, notAnalyze>>

NextAnalyze ==
    \/ RouteValidate
    \/ RouteSave
    \/ RouteWrite
    \/ RouteSpecs
    \/ ProductInfoSearch
    \/ ProductInfoAnswer
    \/ PriceSearch
    \/ PriceAnswer
    \/ StageStart
    \/ StageFinish
    \/ StageFail
    \/ Return
    \/ RouteExcept

SpecAnalyze == InitAnalyze /\ [][NextAnalyze]_vars

(***************************************************************************)
(* One call of search_product_prices on the results of its search          *)
(***************************************************************************)

\* results whose text carries exactly one number and no currency prefix
ItemTenK ==
    [title |-> T(<<"T","o","k","o"," ","E">>), link |-> "l5", displayLink |-> "d5",
     snippet |-> Some(T(<<"h","a","r","g","a"," ","1","0",".","0","0","0">>))]

ItemTwentyK ==
    [title |-> T(<<"T","o","k","o"," ","F">>), link |-> "l6", displayLink |-> "d6",
     snippet |-> Some(T(<<"h","a","r","g","a"," ","2","0",".","0","0","0">>))]

ItemThirtyK ==
    [title |-> T(<<"T","o","k","o"," ","G">>), link |-> "l7", displayLink |-> "d7",
     snippet |-> Some(T(<<"h","a","r","g","a"," ","3","0",",","0","0","0">>))]

ItemFortyK ==
    [title |-> T(<<"T","o","k","o"," ","H">>), link |-> "l8", displayLink |-> "d8",
     snippet |-> Some(T(<<"h","a","r","g","a"," ","4","0",".","0","0","0">>))]

\* a number below the lower limit of the sanity check
ItemTooCheap ==
    [title |-> T(<<"T","o","k","o"," ","I">>), link |-> "l9", displayLink |-> "d9",
     snippet |-> Some(T(<<"R","p"," ","9","9","9">>))]

\* the two limits of the sanity check and the number just above the upper one
ItemLimits ==
    [title |-> T(<<"T","o","k","o"," ","J">>), link |-> "l10", displayLink |-> "d10",
     snippet |-> Some(T(<<"1",".","0","0","0"," ","1",".","0","0","0",".","0","0","0",".","0","0","0"," ","1",".","0","0","0",".","0","0","0",".","0","0","1">>))]

\* a form feed between the currency and the number
ItemFormFeed ==
    [title |-> T(<<"T","o","k","o"," ","K">>), link |-> "l11", displayLink |-> "d11",
     snippet |-> Some(T(<<"R","p","\f","5",".","0","0","0">>))]

\* a number in Arabic-Indic digits after the currency
ItemArabicDigits ==
    [title |-> T(<<"T","o","k","o"," ","L">>), link |-> "l12", displayLink |-> "d12",
     snippet |-> Some((T(<<"R","p"," ">>) \o <<1633, 1632, 1632, 1632, 1632>>))]

\* a number with no currency whose digits are of two scripts
ItemMixedDigits ==
    [title |-> T(<<"T","o","k","o"," ","M">>), link |-> "l13", displayLink |-> "d13",
     snippet |-> Some((T(<<"h","a","r","g","a"," ","1">>) \o <<1632>> \o T(<<".">>) \o <<1632>> \o T(<<"0","0">>)))]

\* a price in the range written with one digit more than int() reads, and
\* the same price with as many digits as it reads
ItemLongDigits ==
    [title |-> T(<<"T","o","k","o"," ","N">>), link |-> "l14", displayLink |-> "d14",
     snippet |-> Some(T(<<"R","p"," ">>) \o LongZeros \o T(<<"5","0","0","0">>))]

ItemMostDigits ==
    [title |-> T(<<"T","o","k","o"," ","O">>), link |-> "l15", displayLink |-> "d15",
     snippet |-> Some(T(<<"R","p"," ">>) \o MostZeros \o T(<<"5","0","0","0">>))]

PriceItems ==
    {ItemTenK, ItemTwentyK, ItemThirtyK, ItemFortyK, ItemTooCheap, ItemPlain,
     ItemTwoPrices, ItemNullSnippet, ItemLimits, ItemFormFeed, ItemArabicDigits,
     ItemMixedDigits}

\* how many results a search returns at most in the model
MaxResults == 4

\* the lists with a long number are few: one such result alone, and one
\* between two results whose prices are read
LongLists ==
    {<<ItemLongDigits>>, <<ItemMostDigits>>, <<ItemTenK, ItemLongDigits, ItemTenK>>,
     <<ItemTenK, ItemMostDigits>>}

ResultLists == UNION {[1..n -> PriceItems] : n \in 0..MaxResults} \cup LongLists

InitPrices ==
    /\ presults \in ResultLists
    /\ price_data = [raised |-> FALSE, data |-> [found |-> FALSE]]
    /\ ppc = "idle"
    /\ ExtractorOff
    /\ AnalysisOff
    /\ PublishOff
    /\ ConcurrentOff
    /\ PredictOff
    /\ ListingOff
    /\ EnrichOff

\* price_data = await search_service.search_product_prices(...)
SearchPrices ==
    /\ ppc = "idle"
    /\ price_data' = SearchProductPrices(presults)
    /\ ppc' = "done"
    /\ UNCHANGED <<presults, notPrices>>

SpecPrices == InitPrices /\ [][SearchPrices]_vars

(***************************************************************************)
(* MarketplaceService.publish_to_multiple_marketplaces                     *)
(***************************************************************************)

\* schemas/product.py: the platforms of a publish request
MarketplacePlatform == {"SHOPEE", "TOKOPEDIA", "TIKTOK_SHOP"}

\* models/database.py: the platforms of a listing and of the enrichment routes
ListingPlatform == {"SHOPEE", "TIKTOK_SHOP"}

\* how many requests a batch has at most in the model
MaxRequests == 3

RequestLists == UNION {[1..n -> MarketplacePlatform] : n \in 0..MaxRequests}

\* what a publish call may end with: the response of the platform's API
\* (tagged with the call it answers), or an exception
PublishOutcomes(i, platform) ==
    {[kind |-> "returned",
      value |-> [success |-> ok, platform |-> platform, call |-> i,
                 message |-> T(<<"o","k">>)]] : ok \in BOOLEAN}
        \cup {[kind |-> "raised", text |-> T(<<"d","o","w","n">>)]}

NotStarted == [state |-> "new"]

\* variant: the results come in the order the calls finished
MutGatherCompletionOrder(calls, order) ==
    [k \in 1..Len(calls) |-> calls[order[k]].outcome]

\* await asyncio.gather(*tasks, return_exceptions=True): one result per
\* task in the order of the tasks, a raised exception as the result
Gather(calls, order) == [i \in 1..Len(calls) |-> calls[i].outcome]

ErrorPrefix == T(<<"E","r","r","o","r",":"," ">>)

\* variant: the failure record carries the platform of the first request
MutConvertFirstPlatform(reqs, results) ==
    [i \in 1..Len(results) |->
        IF results[i].kind = "raised"
        THEN [success |-> FALSE, platform |-> reqs[1],
              message |-> ErrorPrefix \o results[i].text]
        ELSE results[i].value]

\* lines 239-250: an exception becomes a failure response of its request's
\* platform, any other result is appended as it is
ConvertResults(reqs, results) ==
    [i \in 1..Len(results) |->
        IF results[i].kind = "raised"
        THEN [success |-> FALSE, platform |-> reqs[i],
              message |-> ErrorPrefix \o results[i].text]
        ELSE results[i].value]

InitPublish ==
    /\ mreqs \in RequestLists
    /\ mcalls = [i \in 1..Len(mreqs) |-> NotStarted]
    /\ morder = <<>>
    /\ mresponses = [returned |-> FALSE]
    /\ mpc = "idle"
    /\ ExtractorOff
    /\ AnalysisOff
    /\ PricesOff
    /\ ConcurrentOff
    /\ PredictOff
    /\ ListingOff
    /\ EnrichOff

\* the coroutines are created and handed to gather
PublishGather ==
    /\ mpc = "idle"
    /\ mpc' = "gathering"
    /\ UNCHANGED <<mreqs, mcalls, morder, mresponses, notPublish>>

\* a task runs up to its await of the platform's API
PublishCallStart ==
    /\ mpc = "gathering"
    /\ \E i \in 1..Len(mreqs) :
          /\ mcalls[i].state = "new"
          /\ mcalls' = [mcalls EXCEPT ![i] = [state |-> "running"]]
    /\ UNCHANGED <<mreqs, morder, mresponses, mpc, notPublish>>

\* a running task finishes: its API call returns or raises
PublishCallEnd ==
    /\ mpc = "gathering"
    /\ \E i \in 1..Len(mreqs) :
          /\ mcalls[i].state = "running"
          /\ \E o \in PublishOutcomes(i, mreqs[i]) :
                mcalls' = [mcalls EXCEPT ![i] = [state |-> "finished", outcome |-> o]]
          /\ morder' = Append(morder, i)
    /\ UNCHANGED <<mreqs, mresponses, mpc, notPublish>>

\* gather resumes the caller once every task has finished; the results are
\* converted and returned
PublishReturn ==
    /\ mpc = "gathering"
    /\ \A i \in 1..Len(mreqs) : mcalls[i].state = "finished"
    /\ mresponses' = [returned |-> TRUE,
                      list |-> ConvertResults(mreqs, Gather(mcalls, morder))]
    /\ mpc' = "done"
    /\ UNCHANGED <<mreqs, mcalls, morder, notPublish>>

NextPublish ==
    \/ PublishGather
    \/ PublishCallStart
    \/ PublishCallEnd
    \/ PublishReturn

SpecPublish == InitPublish /\ [][NextPublish]_vars

(***************************************************************************)
(* Two requests to analyze_product served by one event loop                *)
(***************************************************************************)

Requests == {1, 2}

\* what the search transport may do in this part of the model
ConcurrentOutcomes ==
    {[kind |-> "response", status |-> 200, items |-> <<ItemPrice>>],
     [kind |-> "response", status |-> 200, items |-> <<>>],
     [kind |-> "error", status |-> 0, items |-> <<>>]}

\* the answers of the four tasks in this part of the model: two answers of
\* the category and pricing tasks together, each with either final text
ConcurrentTexts ==
    {texts \in [vision      : {T(<<"v","1">>)},
                category    : StageTexts["category"],
                pricing     : StageTexts["pricing"],
                copywriting : StageTexts["copywriting"] \ {FragRecHigh}] :
        (texts.category = T(<<"t","o","y","s">>)) = (texts.pricing = FragRecInRange)}

\* what crew.kickoff() may end with: every task has answered, or the backend
\* call of one has raised
KickoffOutcomes ==
    {[kind |-> "outputs", outputs |-> [s \in Stages |-> [set |-> TRUE, text |-> texts[s]]]] :
        texts \in ConcurrentTexts}
        \cup {[kind |-> "raised", type |-> e.type, text |-> e.text] : e \in StageErrors}

NoFeed == [info |-> <<>>, prices |-> <<>>, kickoff |-> <<>>]

\* variant: the variable is a module-level one, shared by the requests
MutAssignShared(frames, r, v) == [q \in DOMAIN frames |-> v]

\* an assignment to a local variable of request r's coroutine
AssignLocal(frames, r, v) == [frames EXCEPT ![r] = v]

\* variant: the category is read from the category task's own output
MutResponseReadsStages(description, k) ==
    IF k.kind = "raised"
    THEN ErrorResponse([type |-> k.type, text |-> k.text])
    ELSE LET final == ParseCrewResult(KickoffResult(k.outputs), description)
             body  == [final EXCEPT
                          !.category = ExtractCategory(k.outputs["category"].text)]
         IN  IF body.raised
             THEN ErrorResponse([type |-> "ValueError",
                                 text |-> T(<<"v","a","l","i","d","a","t","i","o","n">>)])
             ELSE [kind |-> "ok", status_code |-> HttpOk, body |-> body]

\* the answer of the route for what kickoff ended with: the extractor reads
\* kickoff's result and the description
ResponseOf(description, k) ==
    IF k.kind = "raised"
    THEN ErrorResponse([type |-> k.type, text |-> k.text])
    ELSE LET body == ParseCrewResult(KickoffResult(k.outputs), description)
         IN  IF body.raised
             THEN ErrorResponse([type |-> "ValueError",
                                 text |-> T(<<"v","a","l","i","d","a","t","i","o","n">>)])
             ELSE [kind |-> "ok", status_code |-> HttpOk, body |-> body]

InitConcurrent ==
    /\ csettings \in SettingsChoices
    /\ csvc = [created |-> FALSE, enabled |-> FALSE]
    /\ cdesc \in [Requests -> {None, Some(UserText)}]
    /\ cpc = [r \in Requests |-> "info_search"]
    /\ cgsc = [r \in Requests |-> <<>>]
    /\ cmkt = [r \in Requests |-> EmptyMarket]
    /\ cprompt = [r \in Requests |-> <<>>]
    /\ cresp = [r \in Requests |-> NoResponse]
    /\ cfeed = [r \in Requests |-> NoFeed]
    /\ cmixed = FALSE
    /\ cloop = 0
    /\ ExtractorOff
    /\ AnalysisOff
    /\ PricesOff
    /\ PublishOff
    /\ PredictOff
    /\ ListingOff
    /\ EnrichOff

\* the other request has begun and has not yet answered
OtherUnderWay(r) ==
    \E q \in Requests \ {r} :
        cpc[q] \in {"info_await", "price_search", "price_await", "kickoff"}

\* The event loop runs one coroutine at a time and changes to another one only
\* where the running one is suspended: at the await of a search that has sent
\* its request.  cloop = r while request r runs on; cloop = 0 where any
\* request that is ready may be picked.

\* lines 207-213 for request r: with a description, the singleton is fetched
\* and search_product_info awaited; a disabled service returns at once
ConcurrentInfoSearch(r) ==
    /\ cpc[r] = "info_search"
    /\ cloop = 0
    /\ IF Truthy(cdesc[r])
       THEN LET service == GetService(csvc, csettings)
            IN  /\ csvc' = service
                /\ IF service.enabled
                   THEN /\ cpc' = [cpc EXCEPT ![r] = "info_await"]
                        /\ cloop' = 0
                   ELSE /\ cpc' = [cpc EXCEPT ![r] = "price_search"]
                        /\ cloop' = r
       ELSE /\ cpc' = [cpc EXCEPT ![r] = "price_search"]
            /\ cloop' = r
            /\ UNCHANGED csvc
    /\ cmixed' = (cmixed \/ OtherUnderWay(r))
    /\ UNCHANGED <<csettings, cdesc, cgsc, cmkt, cprompt, cresp, cfeed, notConcurrent>>

\* lines 213-228 for request r, resumed with the transport's outcome
ConcurrentInfoAnswer(r) ==
    /\ cpc[r] = "info_await"
    /\ cloop = 0
    /\ \E o \in ConcurrentOutcomes :
          LET res     == Search(csvc, o)
              info    == SearchProductInfo(res.results)
              failed  == res.raised \/ InfoGroundingRaised(info)
          IN  /\ cgsc' = AssignLocal(cgsc, r,
                             IF failed THEN <<>> ELSE GoogleSearchContext(info))
              /\ cfeed' = [cfeed EXCEPT ![r].info = <<o>>]
    /\ cpc' = [cpc EXCEPT ![r] = "price_search"]
    /\ cloop' = r
    /\ cmixed' = (cmixed \/ OtherUnderWay(r))
    /\ UNCHANGED <<csettings, csvc, cdesc, cmkt, cprompt, cresp, notConcurrent>>

\* lines 266-273 for request r, which runs on from the lines before
ConcurrentPriceSearch(r) ==
    /\ cpc[r] = "price_search"
    /\ cloop = r
    /\ LET service == GetService(csvc, csettings)
       IN  /\ csvc' = service
           /\ IF service.enabled
              THEN /\ cpc' = [cpc EXCEPT ![r] = "price_await"]
                   /\ cloop' = 0
              ELSE /\ cpc' = [cpc EXCEPT ![r] = "kickoff"]
                   /\ cloop' = r
    /\ cmixed' = (cmixed \/ OtherUnderWay(r))
    /\ UNCHANGED <<csettings, cdesc, cgsc, cmkt, cprompt, cresp, cfeed, notConcurrent>>

\* lines 273-288 for request r, resumed with the transport's outcome
ConcurrentPriceAnswer(r) ==
    /\ cpc[r] = "price_await"
    /\ cloop = 0
    /\ \E o \in ConcurrentOutcomes :
          LET res     == Search(csvc, o)
              pr      == SearchProductPrices(res.results)
          IN  /\ cmkt' = AssignLocal(cmkt, r,
                             IF res.raised THEN EmptyMarket ELSE MarketPriceContext(pr))
              /\ cfeed' = [cfeed EXCEPT ![r].prices = <<o>>]
    /\ cpc' = [cpc EXCEPT ![r] = "kickoff"]
    /\ cloop' = r
    /\ cmixed' = (cmixed \/ OtherUnderWay(r))
    /\ UNCHANGED <<csettings, csvc, cdesc, cgsc, cprompt, cresp, notConcurrent>>

\* lines 247-333 and the route's return or except clause for request r:
\* crew.kickoff() is a synchronous call, the event loop runs nothing else
\* until it has ended and the route has answered
ConcurrentKickoff(r) ==
    /\ cpc[r] = "kickoff"
    /\ cloop = r
    /\ \E k \in KickoffOutcomes :
          /\ cresp' = AssignLocal(cresp, r, ResponseOf(cdesc[r], k))
          /\ cfeed' = [cfeed EXCEPT ![r].kickoff = <<k>>]
    /\ cprompt' = AssignLocal(cprompt, r,
                      <<[user_description |-> cdesc[r],
                         google_search_context |-> cgsc[r],
                         market_price_context |-> cmkt[r]]>>)
    /\ cpc' = [cpc EXCEPT ![r] = "done"]
    /\ cloop' = 0
    /\ cmixed' = (cmixed \/ OtherUnderWay(r))
    /\ UNCHANGED <<csettings, csvc, cdesc, cgsc, cmkt, notConcurrent>>

NextConcurrent ==
    \E r \in Requests :
        \/ ConcurrentInfoSearch(r)
        \/ ConcurrentInfoAnswer(r)
        \/ ConcurrentPriceSearch(r)
        \/ ConcurrentPriceAnswer(r)
        \/ ConcurrentKickoff(r)

SpecConcurrent == InitConcurrent /\ [][NextConcurrent]_vars

(***************************************************************************)
(* POST /enrichment/predict-category                                       *)
(***************************************************************************)

\* values as json.loads returns them: an int, a float (in tenths), a str, a
\* list (of n entries), None; Absent stands for a key the object lacks
JInt(n) == [t |-> "int", n |-> n, s |-> <<>>]

JFloat(tenths) == [t |-> "float", n |-> tenths, s |-> <<>>]

JStr(s) == [t |-> "str", n |-> 0, s |-> s]

JList(n) == [t |-> "list", n |-> n, s |-> <<>>]

\* true and false
JBool(b) == [t |-> "bool", n |-> IF b THEN 1 ELSE 0, s |-> <<>>]

JNull == [t |-> "null", n |-> 0, s |-> <<>>]

Absent == [t |-> "absent", n |-> 0, s |-> <<>>]

\* a JSON object with the four keys of the prompt's template, or fewer
JObject(id, name, conf, alts) ==
    [t |-> "object", category_id |-> id, category_name |-> name, confidence |-> conf,
     alternatives |-> alts]

\* a JSON document that is an array, not an object
JArray ==
    [t |-> "array", category_id |-> Absent, category_name |-> Absent, confidence |-> Absent,
     alternatives |-> Absent]

\* values that spell 12 for an int field, and values that spell no integer
CategoryIdSpelling12 ==
    {JInt(12), JStr(T(<<"1","2">>)), JFloat(120), JStr(T(<<" ","+","1","_","2",".","0">>))}

\* values that spell -1: zeros before a sign are passed over
CategoryIdSpellingMinusOne == {JInt(0 - 1), JStr(T(<<"0","-","1">>))}

\* no integer: a word, a fraction, a dot with no digit after it, an
\* underscore at the end
CategoryIdValues ==
    CategoryIdSpelling12 \cup CategoryIdSpellingMinusOne
        \cup {JStr(T(<<"s","e","p","a","t","u">>)), JStr(T(<<"1","2",".","5">>)), JFloat(125),
              JStr(T(<<"1","2",".">>)), JStr(T(<<"0","_">>)), JNull, Absent}

CategoryNameValues == {JStr(T(<<"S","e","p","a","t","u">>)), JNull, Absent}

\* values that spell 0.9 for a float field, values that spell 1, and values
\* that spell no number
ConfidenceSpellingNineTenths == {JFloat(9), JStr(T(<<"0",".","9">>)), JStr(T(<<" ","9","E","-","1"," ">>))}

ConfidenceSpellingOne == {JInt(1), JBool(TRUE)}

ConfidenceSpellingTen == {JInt(10), JStr(T(<<"1","_","0">>))}

\* a decimal above the greatest double, and one below the least
ConfidenceSpellingInfinity == {JStr(T(<<"1","e","4","0","0">>))}

ConfidenceSpellingLeast == {JStr(T(<<"4","e","-","3","2","4">>))}

\* no number: a word, and underscores in a text with blanks around it
ConfidenceValues ==
    ConfidenceSpellingNineTenths \cup ConfidenceSpellingOne \cup ConfidenceSpellingTen
        \cup ConfidenceSpellingInfinity \cup ConfidenceSpellingLeast
        \cup {JStr(T(<<"t","i","n","g","g","i">>)), JStr(T(<<" ","1","_","0"," ">>)), JNull, Absent}

AlternativesValues == {JList(0), JList(1), JStr(T(<<"-">>)), Absent}

\* how chat.completions.create ends: it raises, or it returns a message whose
\* content is None, a text json.loads raises on, or a JSON document
Completions ==
    {[kind |-> "raised", json |-> "JSONDecodeError", value |-> JArray],
     [kind |-> "no_content", json |-> "JSONDecodeError", value |-> JArray],
     [kind |-> "content", json |-> "value", value |-> JArray]}
    \cup {[kind |-> "content", json |-> e, value |-> JArray] : e \in JsonErrors}
    \cup {[kind |-> "content", json |-> "value", value |-> JObject(id, name, conf, alts)] :
            id \in CategoryIdValues, name \in CategoryNameValues,
            conf \in ConfidenceValues, alts \in AlternativesValues}

PredictionRequests ==
    [product_name : {T(<<"S","e","p","a","t","u">>)},
     description : {None, Some(<<>>), Some(UserText)},
     platform : ListingPlatform]

\* the f-string of predict_category: description or "N/A"
PredictionPrompt(req) ==
    [set |-> TRUE, platform |-> req.platform, product_name |-> req.product_name,
     description |-> IF Truthy(req.description) THEN req.description.val
                     ELSE T(<<"N","/","A">>)]

Raised(type, fields) == [raised |-> TRUE, type |-> type, fields |-> fields]

\* json.loads(response.choices[0].message.content)
JsonLoads(k) ==
    IF k.kind = "no_content" THEN Raised("TypeError", {})
    ELSE IF k.json # "value" THEN Raised(k.json, {})
    ELSE [raised |-> FALSE, value |-> k.value]

\* AIEnrichmentService.predict_category: what the backend call raises goes to
\* the caller, and so does what json.loads raises
PredictCategory(k) ==
    IF k.kind = "raised" THEN Raised("APIError", {}) ELSE JsonLoads(k)

\* The fields of CategoryPredictionResponse are validated by pydantic in its
\* default (lax) mode.  A number is m * 10^e with m not a multiple of 10, or
\* one of inf, -inf, nan, or a double so small that its digits are not kept.

RECURSIVE Norm(_, _)
Norm(m, e) ==
    IF m = 0 THEN [k |-> "num", m |-> 0, e |-> 0]
    ELSE IF m % 10 = 0 THEN Norm(m \div 10, e + 1)
    ELSE [k |-> "num", m |-> m, e |-> e]

NotANumber == [ok |-> FALSE, v |-> Norm(0, 0)]

\* the digits the validator's parsers read: 0 to 9 only
AsciiDigits == 48..57

HasSign(s) == s # <<>> /\ s[1] \in Chs({"+", "-"})

Unsigned(s) == IF HasSign(s) THEN Tail(s) ELSE s

SignOf(s) == IF s # <<>> /\ s[1] = Ch("-") THEN 0 - 1 ELSE 1

\* one digit or more, all of them 0 to 9
AsciiIntParses(s) == s # <<>> /\ \A i \in 1..Len(s) : s[i] \in AsciiDigits

\* str.parse::<i64>(): an optional sign and one digit or more
PlainIntParses(s) == AsciiIntParses(Unsigned(s))

\* the integer parser of pydantic: an optional minus sign, then 0 alone
\* or digits the first of which is not 0
StrictIntParses(s) ==
    LET u == IF s # <<>> /\ s[1] = Ch("-") THEN Tail(s) ELSE s
    IN  AsciiIntParses(u) /\ (Len(u) = 1 \/ u[1] # Ch("0"))

PlainIntOf(s) == SignOf(s) * DigitsValue(Unsigned(s))

\* None unless underscores occur, each between two other characters and no
\* two in a row; then the text without them
StripUnderscores(s) ==
    IF \/ ~Contains(s, T(<<"_">>))
       \/ s[1] = Ch("_")
       \/ s[Len(s)] = Ch("_")
       \/ Contains(s, T(<<"_", "_">>))
    THEN None
    ELSE Some(Remove(s, T(<<"_">>)))

\* leading zeros are dropped.  The text must start with a digit or a minus
\* sign; after a leading zero, zeros and underscores are passed over up to the
\* first digit 1 to 9 or minus sign, from which the text is kept, or up to a
\* dot, from the character before which it is kept; any other character gives
\* None, and of zeros and underscores alone the last character is kept
StripLeadingZeros(s) ==
    IF s = <<>> THEN None
    ELSE IF s[1] # Ch("0")
    THEN IF s[1] \in (AsciiDigits \cup Chs({"-"})) THEN Some(s) ELSE None
    ELSE LET stop == FirstIn(2, Len(s), [j \in 2..Len(s) |-> s[j] \notin Chs({"0", "_"})])
         IN  IF stop > Len(s) THEN Some(<<s[Len(s)]>>)
             ELSE IF s[stop] \in (AsciiDigits \cup Chs({"-"})) THEN Some(SubSeq(s, stop, Len(s)))
             ELSE IF s[stop] = Ch(".") THEN Some(SubSeq(s, stop - 1, Len(s)))
             ELSE None

\* a decimal part that has a digit and only zeros is dropped with its dot
StripDecimalZeros(s) ==
    LET dot == Find(s, T(<<".">>))
    IN  IF dot # 0 /\ dot < Len(s) /\ \A j \in (dot + 1)..Len(s) : s[j] = Ch("0")
        THEN SubSeq(s, 1, dot - 1)
        ELSE s

\* c is the character at place i of s
CharAt(s, i, c) == i <= Len(s) /\ s[i] = Ch(c)

\* the text a trimmed string is reduced to before it is read as an integer
\* once more, None if it cannot be one or nothing was taken from it.  One
\* plus sign is dropped and one minus sign set aside, neither before another
\* sign; the minus sign is put back in front of what is left
CleanIntStr(s) ==
    LET plus     == CharAt(s, 1, "+")
        unplused == IF plus THEN Tail(s) ELSE s
        negative == CharAt(unplused, 1, "-")
        body     == IF negative THEN Tail(unplused) ELSE unplused
        zeros    == StripLeadingZeros(body)
        dec      == IF zeros.isNone THEN <<>> ELSE StripDecimalZeros(zeros.val)
        und      == StripUnderscores(dec)
        signed(t) == IF negative THEN T(<<"-">>) \o t ELSE t
    IN  IF plus /\ CharAt(s, 2, "-") THEN None
        ELSE IF negative /\ (CharAt(unplused, 2, "-") \/ CharAt(unplused, 2, "+")) THEN None
        ELSE IF zeros.isNone THEN None
        ELSE IF ~und.isNone THEN Some(signed(und.val))
        ELSE IF Len(dec) = Len(s) THEN None
        ELSE Some(signed(dec))

\* a str for a field declared int: the trimmed text is read as an integer;
\* failing that, what it is reduced to
StrAsInt(s) ==
    Value(TrimStr(s), LAMBDA t :
        IF StrictIntParses(t) THEN [ok |-> TRUE, n |-> PlainIntOf(t)]
        ELSE Value(CleanIntStr(t), LAMBDA clean :
                 IF ~clean.isNone /\ StrictIntParses(clean.val)
                 THEN [ok |-> TRUE, n |-> PlainIntOf(clean.val)]
                 ELSE [ok |-> FALSE, n |-> 0]))

\* A-Z to a-z, every other character as it is
AsciiLower(s) == [i \in 1..Len(s) |-> IF 65 <= s[i] /\ s[i] <= 90 THEN s[i] + 32 ELSE s[i]]

\* the number of digits of the positive integer m
RECURSIVE NumDigits(_)
NumDigits(m) == IF m < 10 THEN 1 ELSE 1 + NumDigits(m \div 10)

RECURSIVE Pow10(_)
Pow10(n) == IF n = 0 THEN 1 ELSE 10 * Pow10(n - 1)

\* the first nine digits of the positive integer m of at most nine digits,
\* zeros added on the right
NineDigits(m) == m * Pow10(9 - NumDigits(m))

\* the greatest double is 1.7976931348623157e308 and a decimal from
\* 1.7976931348623158e308 on is read as inf
OverflowDigits == 179769313

\* 2^-1075, half the least double, in units of 1e-324:
\* 2.4703282292062327208828439643..., its digits in groups of four
HalfLeast == <<2, 4703, 2822, 9206, 2327, 2088, 2843, 9643>>

\* 1e-324 in units of the least double 2^-1074:
\* 0.2024022533073106183524953467..., its digits in groups of four
LeastPerUnit == <<0, 2024, 225, 3307, 3106, 1835, 2495, 3467>>

\* the natural number a in three groups of four digits, the first open
Groups(a) == <<a \div 100000000, (a \div 10000) % 10000, a % 10000>>

\* what the groups s and after of a product carry into group s - 1
RECURSIVE CarryOut(_, _)
CarryOut(sums, s) ==
    IF s > Len(sums) THEN 0 ELSE (sums[s] + CarryOut(sums, s + 1)) \div 10000

\* a * c for a natural number a and a constant c in groups of four digits:
\* the integer part of the product and its first decimal
Times(a, c) ==
    LET g          == Groups(a)
        term(i, s) == IF s - i + 1 \in 1..Len(c) THEN g[i] * c[s - i + 1] ELSE 0
        sums       == [s \in 1..(Len(c) + 2) |-> term(1, s) + term(2, s) + term(3, s)]
        group(s)   == (sums[s] + CarryOut(sums, s + 1)) % 10000
    IN  [int   |-> (sums[1] + CarryOut(sums, 2)) * 100000000 + group(2) * 10000 + group(3),
         tenth |-> group(4) \div 1000]

\* the multiple of 2^-1074 nearest to m * 10^(-324 - t), as a count of 2^-1074
LeastCount(m, t) ==
    LET p == Times(m, LeastPerUnit)
    IN  IF t = 0 THEN p.int + (IF p.tenth >= 5 THEN 1 ELSE 0)
        ELSE (p.int + 5 * Pow10(t - 1)) \div Pow10(t)

\* the decimal of fewest digits that is read as the double n * 2^-1074, in
\* units of 1e-324: the decimals read as it lie between (2n - 1) * 2^-1075
\* and (2n + 1) * 2^-1075; of those with the fewest digits the nearest
ShortestDecimal(n) ==
    LET lo    == Times(2 * n - 1, HalfLeast).int
        hi    == Times(2 * n + 1, HalfLeast).int
        mid   == Times(2 * n, HalfLeast)
        round == {j \in 1..9 : (hi \div Pow10(j)) * Pow10(j) > lo}
    IN  IF round = {} THEN mid.int + (IF mid.tenth >= 5 THEN 1 ELSE 0)
        ELSE LET j == CHOOSE j \in round : \A i \in round : i <= j
             IN  (hi \div Pow10(j)) * Pow10(j)

\* the double a decimal m * 10^e (m of at most nine digits, no multiple of
\* 10) is read as, as Python prints it.  The decimal lies between 10^(d-1)
\* and 10^d.  Doubles are no closer to each other than 2^-1074 and, up to the
\* greatest, closer than one part in 10^15: a decimal whose last digit counts
\* 1e-323 or more is printed as it was read.  A decimal of finer digits is
\* read as a multiple of 2^-1074
DoubleOf(sign, m, e) ==
    LET d == NumDigits(m) + e
    IN  IF d > 309 \/ (d = 309 /\ NineDigits(m) > OverflowDigits)
        THEN [k |-> "inf", m |-> sign, e |-> 0]
        ELSE IF d < 0 - 323 THEN Norm(0, 0)
        ELSE IF e >= 0 - 323 THEN [k |-> "num", m |-> sign * m, e |-> e]
        ELSE Value(LeastCount(m, 0 - 324 - e), LAMBDA n :
                 IF n = 0 THEN Norm(0, 0)
                 ELSE Norm(sign * ShortestDecimal(n), 0 - 324))

\* digits, "." and digits with a digit on one side at least, then an optional
\* exponent: the finite numbers a string may spell for a float
DecimalOf(body) ==
    LET epos  == Find(body, T(<<"e">>))
        mant  == IF epos = 0 THEN body ELSE SubSeq(body, 1, epos - 1)
        ex    == IF epos = 0 THEN T(<<"0">>) ELSE SubSeq(body, epos + 1, Len(body))
        dot   == Find(mant, T(<<".">>))
        whole == IF dot = 0 THEN mant ELSE SubSeq(mant, 1, dot - 1)
        frac  == IF dot = 0 THEN <<>> ELSE SubSeq(mant, dot + 1, Len(mant))
        all   == whole \o frac
    IN  IF AsciiIntParses(all) /\ PlainIntParses(ex)
        THEN [ok |-> TRUE, v |-> Norm(DigitsValue(all), PlainIntOf(ex) - Len(frac))]
        ELSE NotANumber

\* str.parse::<f64>(): an optional sign, then inf, infinity, nan or a decimal;
\* letters in either case
FloatParse(s) ==
    Value(AsciiLower(Unsigned(s)), LAMBDA body :
        IF body \in {T(<<"i","n","f">>), T(<<"i","n","f","i","n","i","t","y">>)}
        THEN [ok |-> TRUE, v |-> [k |-> "inf", m |-> SignOf(s), e |-> 0]]
        ELSE IF body = T(<<"n","a","n">>)
        THEN [ok |-> TRUE, v |-> [k |-> "nan", m |-> 0, e |-> 0]]
        ELSE Value(DecimalOf(body), LAMBDA d :
                 IF ~d.ok THEN NotANumber
                 ELSE IF d.v.m = 0 THEN [ok |-> TRUE, v |-> Norm(0, 0)]
                 ELSE [ok |-> TRUE, v |-> DoubleOf(SignOf(s), d.v.m, d.v.e)]))

\* a str for a field declared float: the trimmed text is read; failing that,
\* the text as it is, its underscores removed
StrAsFloat(s) ==
    IF FloatParse(TrimStr(s)).ok THEN FloatParse(TrimStr(s))
    ELSE IF ~StripUnderscores(s).isNone THEN FloatParse(StripUnderscores(s).val)
    ELSE NotANumber

\* a field declared int admits an int, a bool, a float without a fraction and
\* a str that spells an integer
IntFieldValid(v) ==
    \/ v.t \in {"int", "bool"}
    \/ v.t = "float" /\ v.n % 10 = 0
    \/ v.t = "str" /\ StrAsInt(v.s).ok

IntFieldValue(v) ==
    IF v.t \in {"int", "bool"} THEN v.n
    ELSE IF v.t = "float" THEN v.n \div 10
    ELSE StrAsInt(v.s).n

\* a field declared str admits a str only
StrFieldValid(v) == v.t = "str"

\* a field declared float admits a float, an int, a bool and a str that
\* spells a number
FloatFieldValid(v) ==
    \/ v.t \in {"float", "int", "bool"}
    \/ v.t = "str" /\ StrAsFloat(v.s).ok

FloatFieldValue(v) ==
    IF v.t = "float" THEN Norm(v.n, 0 - 1)
    ELSE IF v.t \in {"int", "bool"} THEN Norm(v.n, 0)
    ELSE StrAsFloat(v.s).v

\* a field declared list admits a list only
ListFieldValid(v) == v.t = "list"

InvalidFields(result) ==
    {f \in {"category_id"} : ~IntFieldValid(result.category_id)}
    \cup {f \in {"category_name"} : ~StrFieldValid(result.category_name)}
    \cup {f \in {"confidence"} : ~FloatFieldValid(result.confidence)}
    \cup {f \in {"alternatives"} : ~ListFieldValid(result.alternatives)}

\* CategoryPredictionResponse(**result)
CategoryPredictionResponse(result) ==
    IF result.t # "object" THEN Raised("TypeError", {})
    ELSE IF InvalidFields(result) # {} THEN Raised("ValidationError", InvalidFields(result))
    ELSE [raised |-> FALSE,
          model |-> [category_id |-> IntFieldValue(result.category_id),
                     category_name |-> result.category_name.s,
                     confidence |-> FloatFieldValue(result.confidence),
                     alternatives |-> result.alternatives.n]]

PredictionFailedPrefix == "Category prediction failed: "

\* except Exception as e: raise HTTPException(500, "Category prediction failed: ...")
PredictionFailed(e) ==
    [kind |-> "error", status_code |-> HttpServerError,
     detail |-> [prefix |-> PredictionFailedPrefix, type |-> e.type, fields |-> e.fields]]

\* the body of the route after the await
PredictionResponse(k) ==
    LET result == PredictCategory(k)
    IN  IF result.raised THEN PredictionFailed(result)
        ELSE LET m == CategoryPredictionResponse(result.value)
             IN  IF m.raised THEN PredictionFailed(m)
                 ELSE [kind |-> "ok", status_code |-> HttpOk, body |-> m.model]

InitPredict ==
    /\ ExtractorOff
    /\ AnalysisOff
    /\ PricesOff
    /\ PublishOff
    /\ ConcurrentOff
    /\ qreq \in PredictionRequests
    /\ qprompt = [set |-> FALSE]
    /\ qcompletion = [kind |-> "none"]
    /\ qresponse = [kind |-> "none"]
    /\ qpc = "idle"
    /\ ListingOff
    /\ EnrichOff

\* the route up to the await: the service is made, the prompt built and sent
PredictSend ==
    /\ qpc = "idle"
    /\ qprompt' = PredictionPrompt(qreq)
    /\ qpc' = "awaiting"
    /\ UNCHANGED <<qreq, qcompletion, qresponse, notPredict>>

\* the backend call ends; the rest of predict_category and of the route runs
PredictAnswer ==
    /\ qpc = "awaiting"
    /\ \E k \in Completions :
        /\ qcompletion' = k
        /\ qresponse' = PredictionResponse(k)
    /\ qpc' = "done"
    /\ UNCHANGED <<qreq, qprompt, notPredict>>

NextPredict ==
    \/ PredictSend
    \/ PredictAnswer

SpecPredict == InitPredict /\ [][NextPredict]_vars

(***************************************************************************)
(* POST /marketplaces/publish                                              *)
(***************************************************************************)

HttpNotFound == 404

PublishFailedPrefix == "Failed to publish product: "

\* a text of n characters
Chars(n) == [i \in 1..n |-> Ch("a")]

\* bool(v) of Python, which decides what "v or w" gives
PyTruthy(v) ==
    \/ v.t = "str" /\ v.s # <<>>
    \/ v.t \in {"int", "float", "bool"} /\ v.n # 0
    \/ v.t = "list" /\ v.n > 0

\* d.get(key): None for a key that is missing
DictGet(v) == IF v.t = "absent" THEN JNull ELSE v

\* d.get(key, default)
DictGetOr(v, default) == IF v.t = "absent" THEN default ELSE v

\* int(v): the integer; a text that does not spell one raises ValueError,
\* None and a list raise TypeError; a float loses its fraction
PyInt(v) ==
    IF v.t \in {"int", "bool"} THEN [raised |-> "none", n |-> v.n]
    ELSE IF v.t = "float"
    THEN [raised |-> "none", n |-> IF v.n < 0 THEN 0 - ((0 - v.n) \div 10) ELSE v.n \div 10]
    ELSE IF v.t = "str"
    THEN (IF IntParses(v.s) THEN [raised |-> "none", n |-> IntOf(v.s)]
          ELSE [raised |-> "ValueError", n |-> 0])
    ELSE [raised |-> "TypeError", n |-> 0]

\* the keyword arguments of MarketplacePublishRequest(...) of step 5, built
\* from the listing and the product the route read at steps 1 and 2
RequestArguments(platform_data, product) ==
    [title |-> IF PyTruthy(DictGet(platform_data.item_name))
               THEN platform_data.item_name
               ELSE DictGetOr(platform_data.product_name, JStr(product.name)),
     description |-> IF PyTruthy(DictGet(platform_data.description))
                     THEN platform_data.description
                     ELSE DictGetOr(platform_data.description_html, JStr(<<>>)),
     price |-> PyInt(DictGetOr(platform_data.price, JFloat(product.price))),
     stock |-> IF PyTruthy(DictGet(platform_data.stock))
               THEN platform_data.stock
               ELSE DictGetOr(platform_data.stock_quantity, JInt(product.stock_quantity)),
     images |-> DictGetOr(platform_data.images, JList(product.images))]

TitleMinLength == 5

TitleMaxLength == 200

DescriptionMinLength == 20

\* the fields MarketplacePublishRequest refuses: title is a str of 5 to 200
\* characters, description a str of 20 or more, price an int above 0, stock
\* an int of 0 or more, images a list of one item or more
InvalidRequestFields(args) ==
    {f \in {"title"} :
        ~(StrFieldValid(args.title) /\ TitleMinLength <= Len(args.title.s)
                                   /\ Len(args.title.s) <= TitleMaxLength)}
    \cup {f \in {"description"} :
        ~(StrFieldValid(args.description) /\ DescriptionMinLength <= Len(args.description.s))}
    \cup {f \in {"price"} : ~(args.price.n > 0)}
    \cup {f \in {"stock"} : ~(IntFieldValid(args.stock) /\ IntFieldValue(args.stock) >= 0)}
    \cup {f \in {"images"} : ~(args.images.t = "list" /\ args.images.n >= 1)}

\* step 5 as a whole: int() raises first, while the arguments are evaluated;
\* then the model is validated (ValidationError is a ValueError)
BuildRequest(platform, platform_data, product) ==
    Value(RequestArguments(platform_data, product), LAMBDA args :
        IF args.price.raised # "none" THEN [raised |-> args.price.raised, fields |-> {}]
        ELSE IF InvalidRequestFields(args) # {}
        THEN [raised |-> "ValidationError", fields |-> InvalidRequestFields(args)]
        ELSE [raised |-> "none", fields |-> {},
              request |-> [set |-> TRUE, platform |-> platform, title |-> args.title.s,
                           description |-> args.description.s, price |-> args.price.n,
                           stock |-> IntFieldValue(args.stock), images |-> args.images.n]])

\* what the platform's publish_product may end with: a response that reports
\* success, one that reports failure, or an exception
MarketplaceOutcomes(platform) ==
    {[kind |-> "returned", success |-> TRUE, platform |-> platform,
      marketplace_product_id |-> "P1", product_url |-> "https://P1", message |-> "ok"],
     [kind |-> "returned", success |-> FALSE, platform |-> platform,
      marketplace_product_id |-> "", product_url |-> "", message |-> "rejected"],
     [kind |-> "raised", success |-> FALSE, platform |-> platform,
      marketplace_product_id |-> "", product_url |-> "", message |-> "down"]}

\* the three except clauses of the route
PublishError(type) ==
    IF type = "HTTPException" THEN [kind |-> "error", status_code |-> HttpNotFound]
    ELSE IF type \in {"ValueError", "ValidationError"}
    THEN [kind |-> "error", status_code |-> HttpBadRequest]
    ELSE [kind |-> "error", status_code |-> HttpServerError]

\* The methods of ListingRepository update the row whose id is listing_id;
\* when that row is gone the update matches nothing, the method returns None,
\* and the routes do not look at what it returns.

\* ListingRepository.mark_as_publishing
MarkAsPublishing(row) ==
    IF row.set THEN [row EXCEPT !.publish_status = "publishing"] ELSE row

\* ListingRepository.mark_as_published
MarkAsPublished(row, external_product_id, external_listing_url) ==
    IF row.set
    THEN [row EXCEPT !.publish_status = "published",
                     !.external_product_id = external_product_id,
                     !.external_listing_url = external_listing_url]
    ELSE row

\* ListingRepository.mark_as_failed
MarkAsFailed(row, error_message) ==
    IF row.set
    THEN [row EXCEPT !.publish_status = "failed", !.publish_error = error_message]
    ELSE row

\* ListingRepository.update_platform_data
UpdatePlatformData(row, platform_data) ==
    IF row.set THEN [row EXCEPT !.platform_data = platform_data] ELSE row

\* ProductRepository.update(product_id, user_id, product_data): the fields to
\* write come from product_data.model_dump(exclude_unset=True), which a
\* ProductUpdate has and a dict has not; a field that was not set is not
\* written, and a product that is gone is not updated
ProductRepositoryUpdate(status, product_data) ==
    IF product_data.type = "ProductUpdate"
    THEN [raised |-> "none",
          status |-> IF status = "deleted" \/ product_data.status = "unset"
                     THEN status ELSE product_data.status]
    ELSE [raised |-> "AttributeError", status |-> status]

\* the third argument of product_repo.update in the route: a dict
PublishedStatusUpdate == [type |-> "dict", status |-> "published"]

\* a platform_data the request can be built from
GoodPlatformData ==
    [item_name |-> JStr(Chars(20)), product_name |-> Absent,
     description |-> JStr(Chars(30)), description_html |-> Absent,
     price |-> JInt(150000), stock |-> JInt(10), stock_quantity |-> Absent,
     images |-> JList(2)]

\* values of one key of platform_data: those the request schema takes and
\* those it refuses, on both sides of each limit
KeyValues ==
    {[key |-> "item_name", v |-> v] :
        v \in {Absent, JNull, JInt(7), JStr(<<>>), JStr(Chars(4)), JStr(Chars(5)),
               JStr(Chars(200)), JStr(Chars(201))}}
    \cup {[key |-> "product_name", v |-> v] : v \in {JNull, JStr(Chars(4)), JStr(Chars(5))}}
    \cup {[key |-> "description", v |-> v] :
        v \in {Absent, JNull, JStr(<<>>), JStr(Chars(19)), JStr(Chars(20)), JList(1)}}
    \cup {[key |-> "description_html", v |-> v] : v \in {JNull, JStr(Chars(19)), JStr(Chars(25))}}
    \cup {[key |-> "price", v |-> v] :
        v \in {Absent, JNull, JList(1), JInt(0), JInt(0 - 5), JInt(1), JFloat(5), JFloat(15),
               JStr(T(<<"1","5","0","0","0","0">>)), JStr(T(<<" ","1","_","5","0","0"," ">>)),
               JStr(T(<<"1","5",".","0">>)), JStr(T(<<"m","u","r","a","h">>)),
               JStr(T(<<"-","5">>))}}
    \cup {[key |-> "stock", v |-> v] :
        v \in {Absent, JNull, JInt(0), JInt(0 - 1), JInt(1), JFloat(15),
               JStr(T(<<"0","3">>)), JStr(T(<<"b","a","n","y","a","k">>))}}
    \cup {[key |-> "stock_quantity", v |-> v] : v \in {JNull, JInt(0 - 1), JInt(0), JInt(4)}}
    \cup {[key |-> "images", v |-> v] : v \in {Absent, JNull, JList(0), JList(1), JStr(Chars(9))}}

\* the keys taken away so that the value behind them is read
Fallbacks ==
    {[key |-> k, v |-> Absent] : k \in {"item_name", "description", "price", "stock", "images"}}
    \cup {[key |-> "stock", v |-> JInt(0)], [key |-> "description", v |-> JStr(<<>>)]}

WithKey(platform_data, kv) == [platform_data EXCEPT ![kv.key] = kv.v]

\* platform_data that differ from the good one in one key, or in one key and
\* one of the keys read first
PlatformData ==
    {WithKey(GoodPlatformData, a) : a \in KeyValues}
    \cup {WithKey(WithKey(GoodPlatformData, b), a) : a \in KeyValues, b \in Fallbacks}

\* the columns of the product the request is built from: a product the
\* request can fall back on, and one whose name is too short for a title,
\* whose price is below 1, and that has neither stock nor images.  price is
\* in tenths and images is their number
ProductColumns ==
    {[name |-> Chars(12), price |-> 1500000, stock_quantity |-> 10, images |-> 2],
     [name |-> Chars(3), price |-> 5, stock_quantity |-> 0, images |-> 0]}

\* how many other requests run between the steps of this one
MaxOtherRequests == 2

\* what another request left behind: the status of the product and whether
\* the listing's row is there
Left(request, status, row) ==
    [request |-> request, product_status |-> status, listing |-> row.set]

\* the status of the product as the other requests left it, the route itself
\* writing nothing
ProductStatusAfter(status, others) ==
    IF others = <<>> THEN status ELSE others[Len(others)].product_status

\* whether the listing's row is there after the other requests, the route
\* itself removing nothing
ListingLeftBy(others) == others = <<>> \/ others[Len(others)].listing

InitListing ==
    /\ ExtractorOff
    /\ AnalysisOff
    /\ PricesOff
    /\ PublishOff
    /\ ConcurrentOff
    /\ PredictOff
    /\ EnrichOff
    /\ \E st \in {"pending", "failed"}, ps \in {"draft", "ready"},
          pf \in ListingPlatform, pd \in PlatformData, pc \in ProductColumns :
          /\ lprior = [set |-> TRUE, publish_status |-> st, product_status |-> ps]
          /\ llisting = [set |-> TRUE, platform |-> pf, platform_data |-> pd,
                         publish_status |-> st, external_product_id |-> "",
                         external_listing_url |-> "", publish_error |-> ""]
          /\ lproduct = ps
          /\ lcolumns = pc
    /\ lsnapshot = [set |-> FALSE]
    /\ lrequest = [set |-> FALSE]
    /\ lresult = [set |-> FALSE]
    /\ lraised = "none"
    /\ lresponse = [kind |-> "none"]
    /\ lsteps = <<>>
    /\ lothers = <<>>
    /\ lpc = "lookup"

\* steps 1-3: the listing, the product and the shop are looked up; the route
\* goes on with the listing and the product as they were read
PublishLookup ==
    /\ lpc = "lookup"
    /\ \E found \in BOOLEAN :
          IF found
          THEN /\ lsnapshot' = [set |-> TRUE, platform |-> llisting.platform,
                                platform_data |-> llisting.platform_data,
                                product |-> lcolumns]
               /\ lpc' = "mark"
               /\ UNCHANGED <<lraised, lresponse>>
          ELSE /\ lraised' = "lookup"
               /\ lresponse' = PublishError("HTTPException")
               /\ lpc' = "done"
               /\ UNCHANGED lsnapshot
    /\ UNCHANGED <<lprior, llisting, lproduct, lcolumns, lrequest, lresult, lsteps, lothers,
                   notListing>>

\* step 4: mark_as_publishing
PublishMark ==
    /\ lpc = "mark"
    /\ llisting' = MarkAsPublishing(llisting)
    /\ lsteps' = Append(lsteps, "publishing")
    /\ lpc' = "build"
    /\ UNCHANGED <<lprior, lproduct, lcolumns, lsnapshot, lrequest, lresult, lraised,
                   lresponse, lothers, notListing>>

\* variant: a request that cannot be built marks the listing failed
MutBuildFailureMarked ==
    /\ lpc = "build"
    /\ LET built == BuildRequest(lsnapshot.platform, lsnapshot.platform_data,
                                 lsnapshot.product)
       IN  IF built.raised = "none"
           THEN /\ lrequest' = built.request
                /\ lpc' = "call"
                /\ UNCHANGED <<lraised, lresponse, llisting>>
           ELSE /\ lraised' = "build"
                /\ llisting' = MarkAsFailed(llisting, "invalid")
                /\ lresponse' = PublishError(built.raised)
                /\ lpc' = "done"
                /\ UNCHANGED lrequest
    /\ UNCHANGED <<lprior, lproduct, lcolumns, lsnapshot, lresult, lsteps, lothers,
                   notListing>>

\* step 5: the MarketplacePublishRequest is built from the platform_data and
\* the product read at steps 1 and 2
PublishBuild ==
    /\ lpc = "build"
    /\ LET built == BuildRequest(lsnapshot.platform, lsnapshot.platform_data,
                                 lsnapshot.product)
       IN  IF built.raised = "none"
           THEN /\ lrequest' = built.request
                /\ lpc' = "call"
                /\ UNCHANGED <<lraised, lresponse>>
           ELSE /\ lraised' = "build"
                /\ lresponse' = PublishError(built.raised)
                /\ lpc' = "done"
                /\ UNCHANGED lrequest
    /\ UNCHANGED <<lprior, llisting, lproduct, lcolumns, lsnapshot, lresult, lsteps, lothers,
                   notListing>>

\* step 6: publish_to_marketplace
PublishCall ==
    /\ lpc = "call"
    /\ \E o \in MarketplaceOutcomes(lrequest.platform) :
          IF o.kind = "raised"
          THEN /\ lraised' = "call"
               /\ lresponse' = PublishError("Exception")
               /\ lpc' = "done"
               /\ UNCHANGED lresult
          ELSE /\ lresult' = [set |-> TRUE, success |-> o.success, platform |-> o.platform,
                              marketplace_product_id |-> o.marketplace_product_id,
                              product_url |-> o.product_url, message |-> o.message]
               /\ lpc' = "record"
               /\ UNCHANGED <<lraised, lresponse>>
    /\ lsteps' = Append(lsteps, "marketplace_call")
    /\ UNCHANGED <<lprior, llisting, lproduct, lcolumns, lsnapshot, lrequest, lothers,
                   notListing>>

\* step 7: the listing is marked published or failed; a failure is returned
PublishRecord ==
    /\ lpc = "record"
    /\ IF lresult.success
       THEN /\ llisting' = MarkAsPublished(llisting, lresult.marketplace_product_id,
                                           lresult.product_url)
            /\ lsteps' = Append(lsteps, "listing_published")
            /\ lpc' = "product"
            /\ UNCHANGED lresponse
       ELSE /\ llisting' = MarkAsFailed(llisting, lresult.message)
            /\ lsteps' = Append(lsteps, "listing_failed")
            /\ lresponse' = [kind |-> "ok", status_code |-> HttpOk, body |-> lresult]
            /\ lpc' = "done"
    /\ UNCHANGED <<lprior, lproduct, lcolumns, lsnapshot, lrequest, lresult, lraised,
                   lothers, notListing>>

\* step 8: product_repo.update(..., {"status": PUBLISHED}) and return result
PublishProductUpdate ==
    /\ lpc = "product"
    /\ LET u == ProductRepositoryUpdate(lproduct, PublishedStatusUpdate)
       IN  IF u.raised = "none"
           THEN /\ lproduct' = u.status
                /\ lsteps' = Append(lsteps, "product_published")
                /\ lresponse' = [kind |-> "ok", status_code |-> HttpOk, body |-> lresult]
                /\ UNCHANGED lraised
           ELSE /\ lraised' = "update"
                /\ lresponse' = PublishError(u.raised)
                /\ UNCHANGED <<lproduct, lsteps>>
    /\ lpc' = "done"
    /\ UNCHANGED <<lprior, llisting, lcolumns, lsnapshot, lrequest, lresult, lothers,
                   notListing>>

\* Other requests write the same rows while this one is suspended.  The
\* repositories' methods are coroutines that never suspend, so that the
\* route gives way to other requests in one place only: the marketplace call,
\* where the platform's client awaits its answer.

UnderWay == lpc = "call"

\* the platform_data an enrichment writes
EnrichedPlatformData ==
    {GoodPlatformData, WithKey(GoodPlatformData, [key |-> "price", v |-> JNull])}

\* the payloads of PATCH /products/{product_id}: the status, the price, or
\* both; a price of 0, which the schema refuses, stands for one not set
ProductUpdates ==
    {[type |-> "ProductUpdate", status |-> st, price |-> pr] :
        st \in {"unset", "draft", "archived"}, pr \in {0, 990000}}
    \ {[type |-> "ProductUpdate", status |-> "unset", price |-> 0]}

\* POST /enrichment/enrich for the same product and shop, after the answer
\* of the AI service: step 4 writes platform_data on the listing that exists
\* (a listing that is gone makes the route create another row), and step 5,
\* mark_as_enriched, sets the product ready unless its row is gone; nothing
\* suspends between the two
OtherEnrichProduct ==
    /\ UnderWay
    /\ Len(lothers) < MaxOtherRequests
    /\ \E pd \in EnrichedPlatformData :
          /\ llisting' = UpdatePlatformData(llisting, pd)
          /\ lproduct' = IF lproduct = "deleted" THEN lproduct ELSE "ready"
          /\ lothers' = Append(lothers, Left("enrich_product", lproduct', llisting'))
    /\ UNCHANGED <<lprior, lcolumns, lsnapshot, lrequest, lresult, lraised, lresponse,
                   lsteps, lpc, notListing>>

\* PATCH /products/{product_id}: ProductRepository.update with a
\* ProductUpdate; the route answers 404 for a product that is gone
OtherProductUpdate ==
    /\ UnderWay
    /\ Len(lothers) < MaxOtherRequests
    /\ \E u \in ProductUpdates :
          /\ lproduct' = ProductRepositoryUpdate(lproduct, u).status
          /\ lcolumns' = IF lproduct = "deleted" \/ u.price = 0
                         THEN lcolumns ELSE [lcolumns EXCEPT !.price = u.price]
          /\ lothers' = Append(lothers, Left("update_product", lproduct', llisting))
    /\ UNCHANGED <<lprior, llisting, lsnapshot, lrequest, lresult, lraised, lresponse,
                   lsteps, lpc, notListing>>

\* DELETE /products/{product_id}: hard_delete removes the product's row
OtherHardDelete ==
    /\ UnderWay
    /\ Len(lothers) < MaxOtherRequests
    /\ lproduct' = "deleted"
    /\ lothers' = Append(lothers, Left("delete_product", lproduct', llisting))
    /\ UNCHANGED <<lprior, llisting, lcolumns, lsnapshot, lrequest, lresult, lraised,
                   lresponse, lsteps, lpc, notListing>>

\* ProductRepository.soft_delete on the product: the status becomes
\* archived, the other columns stay; a row that is gone is not written
OtherSoftDelete ==
    /\ UnderWay
    /\ Len(lothers) < MaxOtherRequests
    /\ lproduct' = IF lproduct = "deleted" THEN lproduct ELSE "archived"
    /\ lothers' = Append(lothers, Left("soft_delete", lproduct', llisting))
    /\ UNCHANGED <<lprior, llisting, lcolumns, lsnapshot, lrequest, lresult, lraised,
                   lresponse, lsteps, lpc, notListing>>

\* ListingRepository.delete on the listing: the row is removed
OtherListingDelete ==
    /\ UnderWay
    /\ Len(lothers) < MaxOtherRequests
    /\ llisting' = [llisting EXCEPT !.set = FALSE, !.publish_status = "none",
                                      !.external_product_id = "",
                                      !.external_listing_url = "", !.publish_error = ""]
    /\ lothers' = Append(lothers, Left("listing_delete", lproduct, llisting'))
    /\ UNCHANGED <<lprior, lproduct, lcolumns, lsnapshot, lrequest, lresult, lraised,
                   lresponse, lsteps, lpc, notListing>>

NextListing ==
    \/ PublishLookup
    \/ PublishMark
    \/ PublishBuild
    \/ PublishCall
    \/ PublishRecord
    \/ PublishProductUpdate
    \/ OtherEnrichProduct
    \/ OtherProductUpdate
    \/ OtherHardDelete
    \/ OtherSoftDelete
    \/ OtherListingDelete

SpecListing == InitListing /\ [][NextListing]_vars

(***************************************************************************)
(* AIEnrichmentService: the payloads for Shopee and TikTok Shop            *)
(***************************************************************************)

\* item_name is cut with [:120]
ShopeeTitleCap == 120

\* product_name is cut with [:100]
TikTokTitleCap == 100

\* a text of n characters whose character at position i depends on i
TextOf(alphabet, n) == [i \in 1..n |-> alphabet[((i - 1) % Len(alphabet)) + 1]]

\* titles a backend can put in its JSON object
BackendTitle(n) == TextOf(T(<<"j", "u", "d", "u", "l", " ", "a", "i">>), n)

\* names of a product; ProductCreate allows 3 to 200 characters
ProductName(n) == TextOf(T(<<"S", "e", "p", "a", "t", "u", " ">>), n)

TitleLengths == {0, 50, 99, 100, 101, 119, 120, 121, 150}

NameLengths == {3, 100, 101, 120, 121, 200}

\* the value under "title" in the backend's JSON object
TitleValues ==
    {JStr(BackendTitle(n)) : n \in TitleLengths}
        \cup {JList(3), JList(130), JInt(7), JNull, Absent}

\* the content of the completion: a JSON object, a JSON array, or a text
\* json.loads raises on
EnrichmentCompletions ==
    {[t |-> "object", title |-> v] : v \in TitleValues}
        \cup {[t |-> "array", title |-> Absent]}
        \cup {[t |-> e, title |-> Absent] : e \in JsonErrors}

\* dict.get("title", product.name)
GetTitle(ai_output, product_name) ==
    IF ai_output.title.t = "absent" THEN JStr(product_name) ELSE ai_output.title

\* value[:cap] in Python: a str and a list are cut, anything else raises TypeError
Sliceable(value) == value.t \in {"str", "list"}

\* variant: the title is passed on uncut
MutNoSlice(value, cap) == value

SliceTo(value, cap) ==
    IF value.t = "str" THEN JStr(Prefix(value.s, cap))
    ELSE JList(IF value.n < cap THEN value.n ELSE cap)

\* json.loads, then the payload builder; field is the payload's key of the title
BuildPayload(content, product_name, platform, field, cap) ==
    IF content.t \in JsonErrors THEN [kind |-> "raised", type |-> content.t]
    ELSE IF content.t # "object" THEN [kind |-> "raised", type |-> "AttributeError"]
    ELSE IF ~Sliceable(GetTitle(content, product_name))
        THEN [kind |-> "raised", type |-> "TypeError"]
    ELSE [kind |-> "payload", platform |-> platform, field |-> field,
          value |-> SliceTo(GetTitle(content, product_name), cap)]

BuildShopeePayload(product_name, content) ==
    BuildPayload(content, product_name, "shopee", "item_name", ShopeeTitleCap)

BuildTiktokPayload(product_name, content) ==
    BuildPayload(content, product_name, "tiktok_shop", "product_name", TikTokTitleCap)

InitEnrich ==
    /\ ExtractorOff
    /\ AnalysisOff
    /\ PricesOff
    /\ PublishOff
    /\ ConcurrentOff
    /\ PredictOff
    /\ ListingOff
    /\ ename \in {ProductName(n) : n \in NameLengths}
    /\ econtent \in EnrichmentCompletions
    /\ epayload = [kind |-> "none"]
    /\ epc = "idle"

EnrichForShopee ==
    /\ epc = "idle"
    /\ epayload' = BuildShopeePayload(ename, econtent)
    /\ epc' = "done"
    /\ UNCHANGED <<ename, econtent, notEnrich>>

EnrichForTiktok ==
    /\ epc = "idle"
    /\ epayload' = BuildTiktokPayload(ename, econtent)
    /\ epc' = "done"
    /\ UNCHANGED <<ename, econtent, notEnrich>>

NextEnrich == EnrichForShopee \/ EnrichForTiktok

SpecEnrich == InitEnrich /\ [][NextEnrich]_vars

(***************************************************************************)
(* Properties                                                              *)
(***************************************************************************)

\* C1: for every raw text and every original_user_input, the result of
\* _parse_crew_result has min_price <= recommended_price <= max_price,
\* whichever of the three prices were extracted or defaulted.
C1_PricesOrdered ==
    xpc = "done" =>
        /\ out.price_suggestion.min_price <= out.price_suggestion.recommended_price
        /\ out.price_suggestion.recommended_price <= out.price_suggestion.max_price

\* the call on the text 'Min Price: Rp 75.000', 'Max Price: Rp 60.000',
\* 'Recommended: Rp 2.000.000': the minimum written is above the maximum and
\* the recommended price is outside both; the result has them swapped and the
\* recommended price at the midpoint
C1_SwappedAndClamped ==
    /\ xpc = "done"
    /\ raw = JoinLines(<<FragMinAboveMax, FragRecHigh>>)
    /\ out.price_suggestion.min_price = 60000
    /\ out.price_suggestion.max_price = 75000
    /\ out.price_suggestion.recommended_price = 67500

\* C2: _parse_crew_result is total and its result is fully populated: for
\* every raw text and every original_user_input it returns without raising,
\* and title, description, hashtags and key_features are all non-empty.
C2_FullyPopulated ==
    xpc = "done" =>
        /\ ~out.raised
        /\ out.title # <<>>
        /\ out.description # <<>>
        /\ out.hashtags # <<>>
        /\ out.key_features # <<>>

\* C3: every result has its category in the ProductCategory enumeration,
\* confidence_score in [0,1], at most 10 hashtags, at most 5 key_features, a
\* title of at most 200 characters and a description of at most 1000
\* characters, however long the raw text.
C3_ResultBounds ==
    xpc = "done" =>
        /\ out.category \in
               {"ELECTRONICS", "FASHION", "FOOD_BEVERAGE", "BEAUTY", "HOME_LIVING",
                "SPORTS", "AUTOMOTIVE", "BOOKS", "TOYS", "OTHER"}
        /\ 0 <= out.confidence_score /\ out.confidence_score <= 100
        /\ Len(out.hashtags) <= 10
        /\ Len(out.key_features) <= 5
        /\ Len(out.title) <= 200
        /\ Len(out.description) <= 1000

\* a call in which all four cuts act: the text holds a title of more than 200
\* characters, more than 10 hashtags and more than 5 features, and the
\* description falls back to a user input of more than 1000 characters
C3_AllCutsActive ==
    /\ xpc = "done"
    /\ Len(ExtractTitle(Split(raw, Ch("\n")))) > 200
    /\ Len(ExtractHashtags(Split(raw, Ch("\n")))) > 10
    /\ Len(ExtractFeatures(Split(raw, Ch("\n")))) > 5
    /\ Len(Strip(ExtractDescription(Split(raw, Ch("\n")), userIn))) > 1000
    /\ Len(out.title) = 200
    /\ Len(out.hashtags) = 10
    /\ Len(out.key_features) = 5
    /\ Len(out.description) = 1000

FixedOrder == <<"vision", "category", "pricing", "copywriting">>

\* C4: the chain runs in the fixed order vision, category, pricing,
\* copywriting: a stage starts only after every declared predecessor has
\* produced its text (which its prompt embeds), no two stages are in progress
\* at the same time, and each stage produces its output exactly once per
\* analysis.
C4_SequentialChain ==
    /\ Len(started) <= Len(FixedOrder)
    /\ started = SubSeq(FixedOrder, 1, Len(started))
    /\ \A k \in 1..Len(started) :
          \A j \in 1..(k - 1) : stage_output[FixedOrder[j]].set
    /\ \A s \in Stages :
          stage[s] # "pending" =>
              /\ Len(prompt[s]) = Len(TaskContext[s])
              /\ \A i \in 1..Len(TaskContext[s]) :
                    /\ prompt[s][i].set
                    /\ prompt[s][i] = stage_output[TaskContext[s][i]]
    /\ Cardinality({s \in Stages : stage[s] = "running"}) <= 1
    /\ \A s \in Stages :
          /\ produced[s] <= 1
          /\ (stage[s] = "done") = (produced[s] = 1)
          /\ stage_output[s].set = (produced[s] = 1)
    /\ response.kind = "ok" => \A s \in Stages : produced[s] = 1

\* an analysis that ran the whole chain
C4_ChainCompleted ==
    /\ apc = "done"
    /\ response.kind = "ok"
    /\ started = FixedOrder
    /\ \A s \in Stages : produced[s] = 1 /\ stage[s] = "done"
    /\ prompt["copywriting"] =
           <<stage_output["vision"], stage_output["category"], stage_output["pricing"]>>

\* C5: if any of the four stages raises a backend error, the whole chain
\* aborts: no later stage runs, the extractor is not invoked, and the analysis
\* ends in a failure, never in a partial or fallback-populated result.
C5_FailureAbortsChain ==
    \A k \in 1..Len(started) :
        stage[started[k]] = "failed" =>
            /\ k = Len(started)
            /\ \A s \in Stages :
                  (\A j \in 1..Len(started) : started[j] # s) => stage[s] = "pending"
            /\ \A s \in Stages : stage[s] # "running"
            /\ parse_calls = 0
            /\ response.kind # "ok"
            /\ apc = "done" => response.kind = "error"

\* an analysis whose second stage failed
C5_SecondStageFailed ==
    /\ apc = "done"
    /\ stage["vision"] = "done"
    /\ stage["category"] = "failed"
    /\ stage["pricing"] = "pending"
    /\ stage["copywriting"] = "pending"
    /\ response.kind = "error"

\* a search call after which the grounding context must be empty
Degraded(c) == ~c.enabled \/ c.grounding_raised \/ c.n_results = 0

\* C6: grounding failures are never fatal: if the product-info search or the
\* price search is disabled, raises, or yields zero results, the grounding
\* context it feeds is empty, no exception from grounding reaches the caller,
\* and all four stages still run (the analysis fails only if a stage fails).
C6_GroundingNeverFatal ==
    /\ exc.source # "grounding"
    /\ \A i \in 1..Len(searches) :
          Degraded(searches[i]) =>
              IF searches[i].caller = "info"
              THEN google_search_context = <<>>
              ELSE market_price_context = [found |-> FALSE]
    /\ (\E i \in 1..Len(searches) : searches[i].caller = "info")
           => apc \notin {"validate", "save", "write", "specs", "info_search",
                            "info_await"}
    /\ (\E i \in 1..Len(searches) : searches[i].caller = "prices")
           => /\ apc \in {"chain", "return", "except", "done"}
              /\ apc = "except" => \E s \in Stages : stage[s] = "failed"
              /\ (apc = "done" /\ \A s \in Stages : stage[s] # "failed")
                     => /\ response.kind = "ok"
                        /\ \A s \in Stages : stage[s] = "done"

\* an analysis that completed although the info grounding raised and the
\* price search had no results
C6_CompletedDegraded ==
    /\ apc = "done"
    /\ response.kind = "ok"
    /\ \A s \in Stages : stage[s] = "done"
    /\ Len(searches) = 2
    /\ searches[1].enabled /\ searches[1].grounding_raised
    /\ searches[2].enabled /\ searches[2].requested /\ searches[2].n_results = 0
    /\ google_search_context = <<>>
    /\ market_price_context = [found |-> FALSE]

\* C7: GoogleSearchService.search never raises: disabled (missing
\* credentials or switched off), on a transport failure, and on a status
\* other than 200 it returns the empty list, and disabled it issues no remote
\* request.  Every request sent belongs to one call of search: a call that
\* has returned, or the one whose answer is awaited.
C7_SearchNeverRaises ==
    /\ \A i \in 1..Len(searches) :
          /\ ~searches[i].raised
          /\ (~settings.google_search_enabled \/ settings.google_search_api_key = ""
                  \/ settings.google_search_engine_id = "")
                 => ~searches[i].requested /\ searches[i].n_results = 0
          /\ searches[i].transport = "error" => searches[i].n_results = 0
          /\ (searches[i].requested /\ searches[i].status # 200)
                 => searches[i].n_results = 0
    /\ requests = Cardinality({i \in 1..Len(searches) : searches[i].requested})
                     + (IF apc \in {"info_await", "price_await"} THEN 1 ELSE 0)

\* two calls of an enabled service: the transport failed, then a 403 answer
C7_TransportFailedThenRefused ==
    /\ Len(searches) = 2
    /\ searches[1].requested /\ searches[1].transport = "error"
    /\ searches[2].requested /\ searches[2].transport = "response"
    /\ searches[2].status = 403
    /\ searches[1].n_results = 0 /\ searches[2].n_results = 0
    /\ requests = 2

\* C8: the analysis answers with a fully populated result or with an error
\* of a closed set of kinds; for no failure, a ValueError raised inside the
\* chain included, is the raw exception text the sole content of the error
\* returned to the caller.
C8_NoRawExceptionText ==
    /\ response.kind = "ok" =>
           /\ response.body.title # <<>>
           /\ response.body.description # <<>>
           /\ response.body.hashtags # <<>>
           /\ response.body.key_features # <<>>
    /\ (response.kind = "error" /\ exc # NoExc) => response.detail # exc.text

StageName ==
    [vision      |-> T(<<"v","i","s","i","o","n">>),
     category    |-> T(<<"c","a","t","e","g","o","r","y">>),
     pricing     |-> T(<<"p","r","i","c","i","n","g">>),
     copywriting |-> T(<<"c","o","p","y","w","r","i","t","i","n","g">>)]

\* C9: when a stage of the chain fails (backend error or timeout), the error
\* surfaced to the caller is marked retryable (a 5xx status is taken as the
\* mark) and identifies which of the four stages failed.
C9_RetryableWithStage ==
    \A s \in Stages :
        (stage[s] = "failed" /\ response.kind = "error") =>
            /\ response.status_code >= 500
            /\ Contains(Lower(response.detail), StageName[s])

\* the number of accepted prices below (at or below) m
CountBelow(ps, m) == Cardinality({i \in 1..Len(ps) : ps[i] < m})

CountAtMost(ps, m) == Cardinality({i \in 1..Len(ps) : ps[i] <= m})

\* C11: for a non-empty list of accepted prices, median_price is the element
\* at index count // 2 of the ascending list (the upper-middle element for
\* even counts, not an average) and confidence is min(count / 10, 1.0); for
\* the prices 10000, 20000, 30000, 40000 the median is 30000 and the
\* confidence 0.4.
C11_MedianAndConfidence ==
    (ppc = "done" /\ ~price_data.raised /\ AllPrices(presults) # <<>>) =>
        LET ps == AllPrices(presults)
            n  == Len(ps)
            d  == price_data.data
        IN  /\ d.found
            /\ \E i \in 1..n : ps[i] = d.median_price
            /\ CountBelow(ps, d.median_price) <= n \div 2
            /\ n \div 2 < CountAtMost(ps, d.median_price)
            /\ d.confidence = (IF n <= 10 THEN n ELSE 10)
            /\ (n = 4 /\ {ps[i] : i \in 1..n} = {10000, 20000, 30000, 40000})
                   => d.median_price = 30000 /\ d.confidence = 4

\* the four prices of the example, found in another order
C11_FourPricesExample ==
    /\ ppc = "done"
    /\ AllPrices(presults) = <<40000, 10000, 30000, 20000>>
    /\ price_data.data.found
    /\ price_data.data.median_price = 30000
    /\ price_data.data.confidence = 4

\* C12: search_product_prices returns found=false, with no price statistics,
\* exactly when zero candidate prices were accepted (also when the search
\* returned nothing); otherwise found=true with price_count >= 1.
C12_FoundIffAccepted ==
    (ppc = "done" /\ ~price_data.raised) =>
        IF AllPrices(presults) = <<>>
        THEN price_data.data = [found |-> FALSE]
        ELSE /\ price_data.data.found
             /\ price_data.data.price_count = Len(AllPrices(presults))
             /\ price_data.data.price_count >= 1

\* results that carry only rejected numbers: not found
C12_OnlyRejectedPrices ==
    /\ ppc = "done"
    /\ presults = <<ItemTooCheap, ItemPlain>>
    /\ ~price_data.raised
    /\ price_data.data = [found |-> FALSE]

\* C13: publish_to_multiple_marketplaces returns only after all N publish
\* calls have finished, and returns exactly N responses of which the one at
\* index i belongs to the request at index i, whatever the order in which
\* the calls finished and however they ended.
C13_JoinedAndOrdered ==
    /\ mresponses.returned =>
           /\ \A i \in 1..Len(mreqs) : mcalls[i].state = "finished"
           /\ Len(morder) = Len(mreqs)
           /\ Len(mresponses.list) = Len(mreqs)
           /\ \A i \in 1..Len(mreqs) :
                 /\ mresponses.list[i].platform = mreqs[i]
                 /\ mcalls[i].outcome.kind = "returned"
                        => mresponses.list[i].call = i
    /\ mpc = "done" => mresponses.returned

\* three requests whose calls finished in the reverse order
C13_FinishedInReverse ==
    /\ mpc = "done"
    /\ Len(mreqs) = 3
    /\ morder = <<3, 2, 1>>
    /\ mreqs[1] # mreqs[3]
    /\ \A i \in 1..3 : mcalls[i].outcome.kind = "returned"
    /\ \A i \in 1..3 : mresponses.list[i].call = i

\* C14: a publish call that raises does not abort the batch: its slot holds
\* a response with success=false and the platform of that request, and every
\* other slot holds the unmodified result of its own call.
C14_PartialSuccess ==
    (\E i \in 1..Len(mreqs) :
         mcalls[i].state = "finished" /\ mcalls[i].outcome.kind = "raised") =>
        /\ mpc \in {"gathering", "done"}
        /\ (mpc = "gathering" /\ \A i \in 1..Len(mreqs) : mcalls[i].state = "finished")
               => ENABLED PublishReturn
        /\ mpc = "done" =>
               /\ mresponses.returned
               /\ Len(mresponses.list) = Len(mreqs)
               /\ \A i \in 1..Len(mreqs) :
                     IF mcalls[i].outcome.kind = "raised"
                     THEN /\ ~mresponses.list[i].success
                          /\ mresponses.list[i].platform = mreqs[i]
                     ELSE mresponses.list[i] = mcalls[i].outcome.value

\* a batch in which the second of three calls raised and the others succeeded
C14_MiddleCallRaised ==
    /\ mpc = "done"
    /\ Len(mreqs) = 3
    /\ mreqs[2] # mreqs[1]
    /\ mcalls[2].outcome.kind = "raised"
    /\ mcalls[1].outcome.kind = "returned" /\ mcalls[1].outcome.value.success
    /\ mcalls[3].outcome.kind = "returned" /\ mcalls[3].outcome.value.success
    /\ ~mresponses.list[2].success
    /\ mresponses.list[1].success /\ mresponses.list[3].success

\* C15: every remote call made during an analysis (each language-model
\* stage, each search query) has an explicit timeout, so that the analysis
\* ends although a remote service never responds.
C15_ExplicitTimeouts ==
    /\ (\E s \in Stages : stage[s] = "running") => "timeout" \in LlmOptions
    /\ (\E i \in 1..Len(searches) : searches[i].requested)
           => "timeout" \in (SessionOptions \cup RequestOptions)

\* the grounding contexts a request has when served alone with the backend
\* responses f to its own calls
AloneInfoContext(f) ==
    IF f.info = <<>> THEN <<>>
    ELSE LET info == SearchProductInfo(Search(NewService(csettings), f.info[1]).results)
         IN  IF InfoGroundingRaised(info) THEN <<>> ELSE GoogleSearchContext(info)

AloneMarketContext(f) ==
    IF f.prices = <<>> THEN [found |-> FALSE]
    ELSE MarketPriceContext(
             SearchProductPrices(Search(NewService(csettings), f.prices[1]).results))

\* what request r holds and has answered is what it holds and has answered
\* when served alone with the backend responses to its own calls
ServedAsAlone(r) ==
    /\ cgsc[r] = AloneInfoContext(cfeed[r])
    /\ cmkt[r] = AloneMarketContext(cfeed[r])
    /\ cpc[r] = "done" =>
           /\ cprompt[r] = <<[user_description |-> cdesc[r],
                              google_search_context |-> cgsc[r],
                              market_price_context |-> cmkt[r]]>>
           /\ cresp[r] = ResponseOf(cdesc[r], cfeed[r].kickoff[1])
    /\ cpc[r] # "done" => cresp[r] = [kind |-> "none"] /\ cprompt[r] = <<>>

\* a step in which request q does not move leaves everything of q as it was
OthersUntouched ==
    \A q \in Requests :
        cpc'[q] = cpc[q] =>
            /\ cdesc'[q] = cdesc[q]
            /\ cgsc'[q] = cgsc[q]
            /\ cmkt'[q] = cmkt[q]
            /\ cprompt'[q] = cprompt[q]
            /\ cresp'[q] = cresp[q]
            /\ cfeed'[q] = cfeed[q]

\* C16: concurrent analysis requests share no mutable state: under every
\* interleaving of two requests, what each embeds in its prompts and what it
\* answers is determined by its own inputs and the backend responses to its
\* own calls, no step of one request changes what the other holds, and the
\* shared search-service singleton is never modified after its creation.
C16_NoSharedMutableState ==
    /\ [](\A r \in Requests : ServedAsAlone(r))
    /\ [](csvc.created => csvc = NewService(csettings))
    /\ [][OthersUntouched /\ (csvc.created => csvc' = csvc)]_vars

\* two interleaved requests with different backend responses and answers
C16_InterleavedAndDifferent ==
    /\ cmixed
    /\ \A r \in Requests : cpc[r] = "done"
    /\ cgsc[1] # <<>> /\ cgsc[2] = <<>>
    /\ cmkt[1] = [found |-> FALSE] /\ cmkt[2] # [found |-> FALSE]
    /\ cresp[1].kind = "ok" /\ cresp[2].kind = "error"

\* a record whose four fields are present and of the JSON type their
\* declaration names: category_id: int a number without a fraction,
\* category_name: str a string, confidence: float a number, alternatives:
\* List an array
WellFormedRecord(k) ==
    /\ k.kind = "content" /\ k.json = "value" /\ k.value.t = "object"
    /\ \/ k.value.category_id.t = "int"
       \/ k.value.category_id.t = "float" /\ k.value.category_id.n % 10 = 0
    /\ k.value.category_name.t = "str"
    /\ k.value.confidence.t \in {"int", "float"}
    /\ k.value.alternatives.t = "list"

\* C17: predict_category has no heuristic fallback: if the backend call fails
\* or its completion is not a well-formed record (not parseable JSON, or with
\* category_id, category_name, confidence or alternatives missing or
\* ill-typed), the caller receives a failure (status 500) that carries no
\* category, never a default or guessed one.
C17_NoHeuristicFallback ==
    (qpc = "done" /\ ~WellFormedRecord(qcompletion)) =>
        /\ qresponse.kind = "error"
        /\ qresponse.status_code = 500
        /\ DOMAIN qresponse = {"kind", "status_code", "detail"}

\* the raw text of the worked example
C18_ExampleText ==
    T(<<"J","U","D","U","L",":"," ","S","e","p","a","t","u"," ","L","a","r","i"," ","P",
      "r","i","a","\n","D","E","S","K","R","I","P","S","I",":"," ","N","y","a","m","a",
      "n"," ","d","a","n"," ","r","i","n","g","a","n","\n","F","I","T","U","R",":","\n",
      "-"," ","R","i","n","g","a","n","\n","-"," ","B","r","e","a","t","h","a","b","l",
      "e","\n","H","A","S","H","T","A","G",":"," ","#","l","a","r","i"," ","#","o","l",
      "a","h","r","a","g","a">>)

\* the index of the line at which the description section of lines stops:
\* the first line after the first DESKRIPSI/DESCRIPTION marker that is not
\* itself such a marker and holds a features or hashtag keyword
\* (Len(lines) + 1 if the section is not opened or not stopped)
DescriptionStop(lines) ==
    LET n == Len(lines)
        d == FirstIn(1, n, [i \in 1..n |-> IsDescMarker(lines[i])])
    IN  FirstIn(d + 1, n,
                [i \in (d + 1)..n |->
                    /\ ~IsDescMarker(lines[i])
                    /\ \E k \in {kwFITUR, kwFEATURE, kwHASHTAG} : Contains(Upper(lines[i]), k)])

\* the index of the line at which the features section of lines stops: the
\* first line after the first FITUR/FEATURE marker that is not itself such a
\* marker and is a hashtag line
FeaturesStop(lines) ==
    LET n == Len(lines)
        f == FirstIn(1, n, [i \in 1..n |-> IsFeatureMarker(lines[i])])
    IN  FirstIn(f + 1, n,
                [i \in (f + 1)..n |->
                    /\ ~IsFeatureMarker(lines[i])
                    /\ (Contains(Upper(lines[i]), kwHASHTAG)
                        \/ StartsWith(Strip(lines[i]), T(<<"#">>)))])

\* the raw text made of the lines before line n
LinesBefore(lines, n) == JoinLines(SubSeq(lines, 1, n - 1))

\* C18: for the example text and no user input the extractor returns the
\* title "Sepatu Lari Pria", the description "Nyaman dan ringan", the
\* hashtags #lari, #olahraga and the features Ringan, Breathable; and for
\* every raw text the description is the one of the text cut where the
\* description section stops (at the features or hashtag marker), and the
\* features are those of the text cut where the features section stops (at
\* the hashtag marker): nothing from the marker on is taken into the field.
C18_MarkersDelimitFields ==
    xpc = "done" =>
        LET lines == Split(raw, Ch("\n"))
        IN  /\ (raw = C18_ExampleText /\ userIn = None) =>
                   /\ ~out.raised
                   /\ out.title = T(<<"S","e","p","a","t","u"," ","L","a","r","i"," ","P","r","i","a">>)
                   /\ out.description = T(<<"N","y","a","m","a","n"," ","d","a","n"," ","r","i","n","g","a","n">>)
                   /\ out.hashtags = <<T(<<"#","l","a","r","i">>), T(<<"#","o","l","a","h","r","a","g","a">>)>>
                   /\ out.key_features = <<T(<<"R","i","n","g","a","n">>), T(<<"B","r","e","a","t","h","a","b","l","e">>)>>
            /\ out.description =
                   ParseCrewResult(LinesBefore(lines, DescriptionStop(lines)),
                                   userIn).description
            /\ out.key_features =
                   ParseCrewResult(LinesBefore(lines, FeaturesStop(lines)),
                                   userIn).key_features

\* the example text was parsed
C18_ExampleParsed ==
    /\ xpc = "done"
    /\ raw = C18_ExampleText
    /\ userIn = None
    /\ Len(out.key_features) = 2

\* a line with a title keyword (in any letter case) and, after the keyword, a
\* ':' whose remainder, emphasis markup removed, is longer than 5 characters
TitleMarkerLine(line) ==
    \E k \in {T(<<"J","U","D","U","L">>), T(<<"T","I","T","L","E">>)} :
        \E i \in 1..Len(line) :
            /\ OccursAt(Upper(line), k, i)
            /\ \E j \in (i + Len(k))..Len(line) :
                   /\ line[j] = Ch(":")
                   /\ Len(Strip(CleanMarkdown(SubSeq(line, j + 1, Len(line))))) > 5

\* C19: the call does not raise and the title is never empty; and if no line
\* of the raw text has a title keyword followed by ':' with a remainder longer
\* than 5 characters, the title is the default 'Produk Berkualitas'.
C19_DefaultWithoutTitleMarker ==
    xpc = "done" =>
        LET lines == Split(raw, Ch("\n"))
        IN  /\ ~out.raised
            /\ out.title # <<>>
            /\ (\A i \in 1..Len(lines) : ~TitleMarkerLine(lines[i]))
                   => out.title = T(<<"P","r","o","d","u","k"," ","B","e","r","k","u","a","l","i","t","a","s">>)

\* the price of a role when only the first of its patterns that matches the
\* text decides: its number if that exceeds 1000, the default otherwise
FirstMatchPrice(text, pats, default) ==
    LET n == Len(pats)
        i == FirstIn(1, n, [j \in 1..n |-> ReSearch(text, pats[j]).ok])
        digits == Remove(ReSearch(text, pats[i]).cap, T(<<".">>))
    IN  IF i > n THEN default
        ELSE IF IntParses(digits) /\ IntOf(digits) > 1000 THEN IntOf(digits)
        ELSE default

\* C20: each of the three prices is decided by the first pattern of its role
\* that matches the raw text (accepted iff above 1000, the default 50,000 /
\* 500,000 / 150,000 otherwise, no later pattern consulted), so the returned
\* prices are these three put in order (swap, midpoint).
C20_FirstMatchDecides ==
    xpc = "done" =>
        LET p == ClampRecommended(SwapMinMax(
                     [min |-> FirstMatchPrice(raw, MinPatterns, 50000),
                      max |-> FirstMatchPrice(raw, MaxPatterns, 500000),
                      rec |-> FirstMatchPrice(raw, RecommendedPatterns, 150000)]))
        IN  /\ out.price_suggestion.min_price = p.min
            /\ out.price_suggestion.max_price = p.max
            /\ out.price_suggestion.recommended_price = p.rec

\* C21: analyze_product never runs the consistency check and never rejects a
\* request for a disagreement of image and description: with or without a
\* description the only tasks ever started are the four of the chain, the
\* only exceptions are those of the grounding, of a chain stage and of the
\* extractor, and a request is refused with status 400 only by the route's
\* own checks or for a ValueError raised by a chain stage or the extractor.
C21_ConsistencyCheckBypassed ==
    /\ \A i \in 1..Len(started) :
           started[i] \in {"vision", "category", "pricing", "copywriting"}
    /\ exc.source \in {"none", "grounding", "stage", "extractor"}
    /\ (response.kind = "error" /\ response.status_code = 400) =>
           \/ apc = "done" /\ started = <<>> /\ exc.source = "none"
           \/ exc.type = "ValueError" /\ exc.source \in {"stage", "extractor"}

\* a request with a description went through the whole chain and was answered
C21_DescribedRequestAnswered ==
    /\ apc = "done"
    /\ ~user_description.isNone /\ user_description.val # <<>>
    /\ Len(started) = 4
    /\ response.kind = "ok"

\* every candidate the three patterns find in the results, as written
RECURSIVE Candidates(_)
Candidates(results) ==
    IF results = <<>> THEN <<>>
    ELSE LET text == results[1].snippet.val \o T(<<" ">>) \o results[1].title
         IN  FindAllCurrency(text, T(<<"R","p">>), 1) \o FindAllCurrency(text, T(<<"I","D","R">>), 1)
                 \o FindAllPlain(text, 1) \o Candidates(Tail(results))

\* the number a candidate spells lies in [1000, 1,000,000,000], however many
\* zeros are written in front of it (a number of ten digits lies in the range
\* only if it is the upper limit)
InSanityRange(match) ==
    LET d == NoLeadingZeros(MarketDigits(match))
    IN  /\ MarketDigits(match) # <<>>
        /\ \/ Len(d) <= 9 /\ MinMarketPrice <= DigitsValue(d)
           \/ /\ Len(d) = 10
              /\ \A j \in 1..10 : DigitValue(d[j]) = (IF j = 1 THEN 1 ELSE 0)

\* C22: a candidate price p is accepted iff 1000 <= p <= 1,000,000,000, both
\* ends included: a call that returns reports found iff some candidate lies
\* in the range, price_count is the number of candidates in the range, and
\* min_price, max_price, avg_price and median_price then lie in the range
\* with min_price <= median_price <= max_price.
C22_SanityRangeInclusive ==
    (ppc = "done" /\ ~price_data.raised) =>
        LET cands == Candidates(presults)
            n     == Cardinality({i \in 1..Len(cands) : InSanityRange(cands[i])})
            d     == price_data.data
        IN  /\ d.found = (n > 0)
            /\ d.found =>
                  /\ d.price_count = n
                  /\ \A v \in {d.min_price, d.max_price, d.avg_price, d.median_price} :
                         1000 <= v /\ v <= 1000000000
                  /\ d.min_price <= d.median_price
                  /\ d.median_price <= d.max_price

\* the members of ProductCategory that occur in the text, by their position
\* in the enumeration
OccurringCategories(text) ==
    {i \in 1..Len(ProductCategory) :
        \/ Find(Lower(text), ProductCategory[i].value) > 0
        \/ Find(Lower(text), Lower(ProductCategory[i].name)) > 0}

\* C23: the category is the member of ProductCategory earliest in the
\* enumeration among those whose value or name occurs in the raw text
\* (letter case ignored), wherever in the text they occur, and OTHER when no
\* member occurs.
C23_FirstCategoryInEnumeration ==
    xpc = "done" =>
        LET occ == OccurringCategories(raw)
        IN  IF occ = {} THEN out.category = "OTHER"
            ELSE \E i \in occ :
                    /\ \A j \in occ : i <= j
                    /\ out.category = ProductCategory[i].id

\* two categories occur, the later one of the enumeration first in the text,
\* and the earlier one of the enumeration was returned
C23_LaterInTextWins ==
    /\ xpc = "done"
    /\ Find(Lower(raw), T(<<"s","p","o","r","t","s">>)) > 0
    /\ Find(Lower(raw), T(<<"s","p","o","r","t","s">>)) < Find(Lower(raw), T(<<"f","a","s","h","i","o","n">>))
    /\ out.category = "FASHION"

\* C24: when no description text is collected from the raw text, the
\* description is the original user input as given (the default string when
\* none was given), cut to its first 1000 characters; a collected
\* description is cut to its first 1000 characters; original_user_input is
\* returned unchanged.
C24_VerbatimFallback ==
    xpc = "done" =>
        LET collected == CollectedDescription(Split(raw, Ch("\n")))
            given     == ~userIn.isNone /\ userIn.val # <<>>
            fallback  == IF given THEN userIn.val
                         ELSE T(<<"P","r","o","d","u","k"," ","b","e","r","k","u","a","l","i","t",
                                "a","s"," ","d","e","n","g","a","n"," ","h","a","r","g","a"," ",
                                "t","e","r","j","a","n","g","k","a","u",".">>)
            whole     == IF collected = <<>> THEN fallback ELSE collected
        IN  /\ out.original_user_input = userIn
            /\ out.description = SubSeq(whole, 1, IF Len(whole) < 1000 THEN Len(whole) ELSE 1000)

\* the positions of the raw text at which a '#word' token starts
TagStarts(text) ==
    {i \in 1..(Len(text) - 1) : text[i] = Ch("#") /\ IsWordChar(text[i + 1])}

\* the token that starts at position i: '#' and the word characters after it
TagAt(text, i) ==
    SubSeq(text, i, CHOOSE e \in i..Len(text) :
                        /\ \A j \in (i + 1)..e : IsWordChar(text[j])
                        /\ (e = Len(text) \/ ~IsWordChar(text[e + 1])))

\* the tokens of the text in order of appearance
AllTags(text) ==
    LET S == TagStarts(text)
    IN  [k \in 1..Cardinality(S) |->
            TagAt(text, CHOOSE p \in S : Cardinality({q \in S : q < p}) = k - 1)]

\* the bullet lines of the features section: the lines between the first
\* features marker and the line at which the section stops
RECURSIVE BulletLines(_, _, _)
BulletLines(lines, i, stop) ==
    IF i >= stop \/ i > Len(lines) THEN <<>>
    ELSE (IF IsFeatureMarker(lines[i]) THEN <<>> ELSE FeatureOf(lines[i]))
             \o BulletLines(lines, i + 1, stop)

\* the first n elements of a list
FirstN(xs, n) == SubSeq(xs, 1, IF Len(xs) < n THEN Len(xs) ELSE n)

\* C25: hashtags are the '#word' tokens of the raw text in order of
\* appearance, the three default tags when there is none, cut to the first
\* 10; key_features are the bullet lines of the features section that are
\* longer than 3 characters after stripping, the three default features when
\* there is none, cut to the first 5.
C25_ListFallbacks ==
    xpc = "done" =>
        LET lines == Split(raw, Ch("\n"))
            n     == Len(lines)
            f     == FirstIn(1, n, [i \in 1..n |-> IsFeatureMarker(lines[i])])
            feats == BulletLines(lines, f + 1, FeaturesStop(lines))
        IN  /\ out.hashtags =
                   IF AllTags(raw) = <<>>
                   THEN <<T(<<"#","p","r","o","d","u","k","b","e","r","k","u","a","l","i","t","a","s">>),
                          T(<<"#","m","u","r","a","h">>),
                          T(<<"#","r","e","c","o","m","m","e","n","d","e","d">>)>>
                   ELSE FirstN(AllTags(raw), 10)
            /\ \A i \in 1..Len(feats) : Len(feats[i]) > 3
            /\ out.key_features =
                   IF feats = <<>>
                   THEN <<T(<<"K","u","a","l","i","t","a","s"," ","t","e","r","j","a","m","i","n">>),
                          T(<<"H","a","r","g","a"," ","t","e","r","j","a","n","g","k","a","u">>),
                          T(<<"S","i","a","p"," ","k","i","r","i","m">>)>>
                   ELSE FirstN(feats, 5)

\* features were collected, a bullet line of two characters was left out,
\* and the hashtags are the default ones
C25_FeaturesWithDefaultTags ==
    /\ xpc = "done"
    /\ TagStarts(raw) = {}
    /\ Len(out.hashtags) = 3
    /\ out.key_features = <<T(<<"A","w","e","t">>), T(<<"M","u","r","a","h">>), T(<<"K","e","r","e","n">>), T(<<"K","u","a","t"," ","s","e","k","a","l","i">>)>>

\* C26: when the marketplace call reports success, the listing is marked
\* published with the external product id and URL, the product's status is
\* then set to published and the caller receives the success response; the
\* steps are, in order: publishing, marketplace call, listing published,
\* product published.
C26_PublishedOnSuccess ==
    (lpc = "done" /\ lresult.set /\ lresult.success) =>
        /\ llisting.publish_status = "published"
        /\ llisting.external_product_id = lresult.marketplace_product_id
        /\ llisting.external_listing_url = lresult.product_url
        /\ lproduct = "published"
        /\ lresponse.kind = "ok"
        /\ lresponse.body = lresult
        /\ lsteps = <<"publishing", "marketplace_call", "listing_published",
                      "product_published">>

C27_PayloadTitleCaps ==
    (epc = "done" /\ epayload.kind = "payload") =>
        LET cap == IF epayload.platform = "shopee" THEN 120 ELSE 100
            title == IF econtent.title.t = "absent" THEN JStr(ename) ELSE econtent.title
        IN  /\ epayload.field =
                   (IF epayload.platform = "shopee" THEN "item_name" ELSE "product_name")
            /\ epayload.value.t = title.t
            /\ epayload.value.t = "str" =>
                   /\ Len(epayload.value.s) <= cap
                   /\ Len(epayload.value.s) = (IF Len(title.s) < cap THEN Len(title.s) ELSE cap)
                   /\ \A i \in 1..Len(epayload.value.s) : epayload.value.s[i] = title.s[i]
            /\ epayload.value.t = "list" => epayload.value.n <= cap

\* a TikTok Shop payload whose title is the first 100 characters of a product
\* name of 200, the backend's output having no title
C27_LongNameCut ==
    /\ epc = "done"
    /\ epayload.kind = "payload"
    /\ epayload.platform = "tiktok_shop"
    /\ econtent.title.t = "absent"
    /\ Len(ename) = 200
    /\ Len(epayload.value.s) = 100

\* C28: the result of analyze_product depends on the chain only through the
\* text of the final (copywriting) task: two analyses with the same user
\* description whose final texts are equal answer the same, whatever their
\* vision, category and pricing tasks answered and whatever market statistics
\* their searches found.
C28_OnlyFinalStageRead ==
    \A r \in Requests : \A q \in Requests :
        (/\ cpc[r] = "done" /\ cpc[q] = "done"
         /\ cfeed[r].kickoff[1].kind = "outputs"
         /\ cfeed[q].kickoff[1].kind = "outputs"
         /\ cdesc[r] = cdesc[q]
         /\ cfeed[r].kickoff[1].outputs["copywriting"].text
                = cfeed[q].kickoff[1].outputs["copywriting"].text)
            => cresp[r] = cresp[q]

\* two analyses of one description answered the same from equal final texts,
\* their category and pricing tasks and their market statistics differing;
\* the category and the minimum price answered are not those the category
\* task and the pricing task of the first wrote
C28_StagesDisagreeWithResult ==
    /\ cpc[1] = "done" /\ cpc[2] = "done"
    /\ cfeed[1].kickoff[1].kind = "outputs"
    /\ cfeed[2].kickoff[1].kind = "outputs"
    /\ cdesc[1] = cdesc[2]
    /\ cfeed[1].kickoff[1].outputs["copywriting"].text
           = cfeed[2].kickoff[1].outputs["copywriting"].text
    /\ cfeed[1].kickoff[1].outputs["category"].text
           # cfeed[2].kickoff[1].outputs["category"].text
    /\ cfeed[1].kickoff[1].outputs["pricing"].text
           # cfeed[2].kickoff[1].outputs["pricing"].text
    /\ cmkt[1] # cmkt[2]
    /\ cresp[1].kind = "ok"
    /\ cresp[1] = cresp[2]
    /\ cresp[1].body.category # ExtractCategory(cfeed[1].kickoff[1].outputs["category"].text)
    /\ cresp[1].body.price_suggestion.min_price
           # OrderedPrices(cfeed[1].kickoff[1].outputs["pricing"].text).min

\* what pattern k (1: Rp, 2: IDR, 3: a bare number) finds in one result
PatternMatches(result, k) ==
    LET text == result.snippet.val \o T(<<" ">>) \o result.title
    IN  CASE k = 1 -> FindAllCurrency(text, T(<<"R","p">>), 1)
          [] k = 2 -> FindAllCurrency(text, T(<<"I","D","R">>), 1)
          [] OTHER -> FindAllPlain(text, 1)

\* the in-range matches of a search: <<result, pattern, match>>
InRangeHits(results) ==
    UNION {UNION {{<<i, k, j>> : j \in {j \in 1..Len(PatternMatches(results[i], k)) :
                                           InSanityRange(PatternMatches(results[i], k)[j])}}
                  : k \in 1..3}
           : i \in 1..Len(results)}

====
